---------------------------- MODULE Spec2Model ----------------------------
(***************************************************************************)
(* A model of openrouter-task2model: the catalog cache (in memory and on   *)
(* disk), the provider client's outcomes, the hard-constraint evaluator in *)
(* its three variants, the request skeleton, and the task2model and        *)
(* sync_catalog handlers with their suspension points.                     *)
(*                                                                         *)
(* Representation of the program's values:                                 *)
(*  - a string the code takes apart (a model id, a modality string) is a   *)
(*    sequence of tokens, separators included, so that concatenation is    *)
(*    \o and split() walks the tokens;                                     *)
(*  - a price string is an opaque token; parseFloat is a table giving its  *)
(*    value in fixed point (units of 1/FixedScale), NaN for a string that  *)
(*    is no number;                                                        *)
(*  - Date.now() is EpochSec * 1000 + now, where now counts milliseconds   *)
(*    from the epoch; an ISO timestamp is the millisecond count it         *)
(*    denotes, tagged as a string;                                         *)
(*  - an optional number that is absent is Undefined, an optional string   *)
(*    that is absent is UndefinedStr, an optional object that is absent    *)
(*    is a record whose field present is FALSE.                            *)
(***************************************************************************)
EXTENDS Integers, Sequences, FiniteSets, TLC

\* ------------------------------------------------------------------------
\* Bounds of the model

\* The clock runs from 0 to MaxTime milliseconds.
MaxTime == 3

\* A catalog drawn for the synchronous pipeline holds at most this many models.
MaxCatalogLen == 2

\* CACHE_TTL_MS as the environment sets it, in milliseconds.
CacheTTL == 2

\* The server is sent at most this many tool calls in one run of the model.
MaxCalls == 2

\* At most this many tool calls are in flight at once.
MaxInFlight == 2

\* The clock of the runs with two embedding calls advances this far.
MaxInterleavedTime == 1

\* ------------------------------------------------------------------------
\* Values of the language

\* JavaScript's Infinity: above every finite number of the model.
Infinity == 2000000000

\* parseFloat's NaN: every comparison with it is false, and it is no number.
NaN == -999999

\* An optional number that was not supplied.
Undefined == -1

\* An optional string that was not supplied.
UndefinedStr == "<undefined>"

\* parseFloat's results are held in units of 1/FixedScale.
FixedScale == 1000000

SecondsPerDay == 60 * 60 * 24

\* The clock's epoch, in Unix seconds: Date.now() = EpochSec * 1000 + now.
EpochSec == 500 * SecondsPerDay

Max(a, b) == IF a >= b THEN a ELSE b

Min(a, b) == IF a <= b THEN a ELSE b

RECURSIVE SeqMax(_)
\* Math.max(...xs) of a non-empty sequence
SeqMax(xs) == IF Len(xs) = 1 THEN xs[1] ELSE Max(xs[1], SeqMax(Tail(xs)))

Range(s) == {s[i] : i \in DOMAIN s}

\* Array.prototype.filter with the predicate given as the set of kept values.
RECURSIVE FilterSeq(_, _)
FilterSeq(xs, keep) ==
    IF xs = <<>> THEN <<>>
    ELSE IF xs[1] \in keep THEN <<xs[1]>> \o FilterSeq(Tail(xs), keep)
         ELSE FilterSeq(Tail(xs), keep)

\* String.prototype.toLowerCase on the tokens of the model.
toLowerCase(tok) ==
    CASE tok = "Anthropic" -> "anthropic"
      [] tok = "OpenAI"    -> "openai"
      [] tok = "Text"      -> "text"
      [] OTHER             -> tok

\* parseFloat on the price strings of the model, in fixed point.
parseFloat(str) ==
    CASE str = "0"        -> 0
      [] str = "0.000001" -> 1
      [] str = "0.000002" -> 2
      [] str = "0.000003" -> 3
      [] str = "0.000015" -> 15
      [] OTHER            -> NaN

\* A string is falsy when it is absent or empty.
Falsy(str) == str = UndefinedStr \/ str = ""

\* String.prototype.split(sep) on a token sequence: the pieces between the
\* separator tokens, each piece a token sequence.
RECURSIVE SplitAcc(_, _, _)
SplitAcc(toks, seps, cur) ==
    IF toks = <<>> THEN <<cur>>
    ELSE IF toks[1] \in seps
         THEN <<cur>> \o SplitAcc(Tail(toks), seps, <<>>)
         ELSE SplitAcc(Tail(toks), seps, cur \o <<toks[1]>>)

split(toks, seps) == SplitAcc(toks, seps, <<>>)

\* toLowerCase of a string held as tokens.
RECURSIVE lowerTokens(_)
lowerTokens(toks) ==
    IF toks = <<>> THEN <<>>
    ELSE <<toLowerCase(toks[1])>> \o lowerTokens(Tail(toks))

\* ------------------------------------------------------------------------
\* Helper functions of the recommender

\* parseList of parseModalities: the pieces between "+" and ",", lower-cased,
\* the empty ones dropped; ['text'] for an absent or empty part.
RECURSIVE lowerNonEmpty(_)
lowerNonEmpty(parts) ==
    IF parts = <<>> THEN <<>>
    ELSE IF parts[1] = <<>> THEN lowerNonEmpty(Tail(parts))
         ELSE <<lowerTokens(parts[1])>> \o lowerNonEmpty(Tail(parts))

parseList(part) ==
    IF part = <<>> THEN << <<"text">> >>
    ELSE lowerNonEmpty(split(part, {"+", ","}))

parseModalities(model) ==
    LET modality == IF model.modality = <<>>
                    THEN <<"text", "->", "text">>
                    ELSE model.modality
        parts      == split(modality, {"->"})
        inputPart  == parts[1]
        outputPart == IF Len(parts) >= 2 THEN parts[2] ELSE <<>>
    IN  [input |-> parseList(inputPart), output |-> parseList(outputPart)]

\* Per-token price string to dollars per 1M tokens.
parsePrice(priceStr) ==
    IF Falsy(priceStr) THEN Infinity
    ELSE LET val == parseFloat(priceStr)
         IN  IF val = NaN THEN Infinity ELSE (val * 1000000) \div FixedScale

\* getModelAgeDays with a model of unknown creation time taken as created
\* now.
getModelAgeDaysUnknownIsNew(model, t) ==
    IF model.created = Undefined \/ model.created = 0 THEN 0
    ELSE (EpochSec - model.created + (t \div 1000)) \div SecondsPerDay

\* floor((Date.now() - created * 1000) / 86400000), with Date.now() =
\* EpochSec * 1000 + t: for integers that is
\* floor((EpochSec - created + floor(t / 1000)) / 86400).
getModelAgeDays(model, t) ==
    IF model.created = Undefined \/ model.created = 0 THEN Infinity
    ELSE (EpochSec - model.created + (t \div 1000)) \div SecondsPerDay

isFreeModel(model) ==
    LET promptPrice     == parseFloat(IF Falsy(model.pricing.prompt)
                                      THEN "0" ELSE model.pricing.prompt)
        completionPrice == parseFloat(IF Falsy(model.pricing.completion)
                                      THEN "0" ELSE model.pricing.completion)
    IN  promptPrice = 0 /\ completionPrice = 0

getProvider(modelId) ==
    lowerTokens(split(modelId, {"/"})[1])

getMaxPrice(model) ==
    LET all    == << parsePrice(model.pricing.prompt),
                     parsePrice(model.pricing.completion),
                     parsePrice(model.pricing.image),
                     parsePrice(model.pricing.request) >>
        prices == FilterSeq(all, {p \in Range(all) : p # Infinity /\ p > 0})
    IN  IF Len(prices) > 0 THEN SeqMax(prices) ELSE 0

\* Map.set(tag, (Map.get(tag) || 0) + 1) on the exclusion tally.
bump(exclusionReasons, tag) ==
    [k \in DOMAIN exclusionReasons \cup {tag} |->
        IF k = tag
        THEN (IF tag \in DOMAIN exclusionReasons
              THEN exclusionReasons[tag] ELSE 0) + 1
        ELSE exclusionReasons[k]]

\* The empty Map.
EmptyMap == [k \in {} |-> 0]

\* ------------------------------------------------------------------------
\* Hard constraints: the clauses

\* Array.prototype.every(x => list.includes(x))
everyIncluded(wanted, list) == \A i \in DOMAIN wanted : wanted[i] \in Range(list)

\* Maximum age: always applied, 365 days when no ceiling is supplied.
\* The age clause applied only when hard_constraints is supplied.
violatesMaxAgeWhenSupplied(model, constraints, t) ==
    /\ constraints.present
    /\ getModelAgeDays(model, t) >
          (IF constraints.max_age_days = Undefined
           THEN 365 ELSE constraints.max_age_days)

violatesMaxAge(model, constraints, t) ==
    LET maxAgeDays == IF ~constraints.present
                         \/ constraints.max_age_days = Undefined
                      THEN 365 ELSE constraints.max_age_days
        modelAge   == getModelAgeDays(model, t)
    IN  modelAge > maxAgeDays

\* The required-parameter clause with the test of its filter inverted: it
\* collects the supported parameters instead of the missing ones.
violatesRequiredParametersInverted(model, constraints) ==
    /\ Len(constraints.required_parameters) > 0
    /\ LET supportedParams == model.supported_parameters
           missingParams   == FilterSeq(constraints.required_parameters,
                                {p \in Range(constraints.required_parameters) :
                                    p \in supportedParams})
       IN  Len(missingParams) > 0

\* The required-parameter clause excluding only a model that supports
\* none of the required parameters.
violatesRequiredParametersAll(model, constraints) ==
    /\ Len(constraints.required_parameters) > 0
    /\ LET supportedParams == model.supported_parameters
           missingParams   == FilterSeq(constraints.required_parameters,
                                {p \in Range(constraints.required_parameters) :
                                    p \notin supportedParams})
       IN  Len(missingParams) = Len(constraints.required_parameters)

violatesRequiredParameters(model, constraints) ==
    /\ Len(constraints.required_parameters) > 0
    /\ LET supportedParams == model.supported_parameters
           missingParams   == FilterSeq(constraints.required_parameters,
                                {p \in Range(constraints.required_parameters) :
                                    p \notin supportedParams})
       IN  Len(missingParams) > 0

violatesInputModalities(model, constraints) ==
    /\ Len(constraints.input_modalities) > 0
    /\ ~everyIncluded(constraints.input_modalities, parseModalities(model).input)

violatesOutputModalities(model, constraints) ==
    /\ Len(constraints.output_modalities) > 0
    /\ ~everyIncluded(constraints.output_modalities, parseModalities(model).output)

violatesProviders(model, constraints) ==
    /\ Len(constraints.providers) > 0
    /\ LET modelProvider    == getProvider(model.id)
           allowedProviders == [i \in DOMAIN constraints.providers |->
                                   lowerTokens(constraints.providers[i])]
       IN  modelProvider \notin Range(allowedProviders)

violatesExcludeFree(model, constraints) ==
    constraints.exclude_free /\ isFreeModel(model)

\* Maximum price of the description-similarity variant (inclusive ceiling).
violatesMaxPricePer1m(model, constraints) ==
    /\ constraints.max_price_per_1m # Undefined
    /\ getMaxPrice(model) > constraints.max_price_per_1m

\* The clauses only the ordinal variant has.
violatesMinContextLength(model, constraints) ==
    /\ constraints.min_context_length # Undefined
    /\ model.context_length < constraints.min_context_length

violatesPromptPrice(model, constraints) ==
    /\ constraints.max_price.present
    /\ constraints.max_price.prompt_per_1m # Undefined
    /\ parsePrice(model.pricing.prompt) > constraints.max_price.prompt_per_1m

violatesCompletionPrice(model, constraints) ==
    /\ constraints.max_price.present
    /\ constraints.max_price.completion_per_1m # Undefined
    /\ parsePrice(model.pricing.completion) > constraints.max_price.completion_per_1m

\* The per-request price is compared as parsed, in fixed point; a NaN is
\* greater than nothing.
violatesRequestPrice(model, constraints) ==
    /\ constraints.max_price.present
    /\ constraints.max_price.request # Undefined
    /\ LET requestPrice == IF Falsy(model.pricing.request) THEN 0
                           ELSE parseFloat(model.pricing.request)
       IN  requestPrice # NaN /\ requestPrice > constraints.max_price.request

violatesMinAge(model, constraints, t) ==
    /\ constraints.min_age_days # Undefined
    /\ getModelAgeDays(model, t) < constraints.min_age_days

\* A clause that returns false without counting the model.
ExcludedUncounted(exclusionReasons, tag) ==
    [pass |-> FALSE, exclusionReasons |-> exclusionReasons]

\* What one call of meetsHardConstraints leaves: its result and the tally.
Excluded(exclusionReasons, tag) ==
    [pass |-> FALSE, exclusionReasons |-> bump(exclusionReasons, tag)]

Passed(exclusionReasons) ==
    [pass |-> TRUE, exclusionReasons |-> exclusionReasons]

\* ------------------------------------------------------------------------
\* Hard constraints: the evaluator of each variant. The first violated
\* clause increments its tag and returns.

\* The description-similarity evaluator with the required-parameter clause
\* moved in front of the age ceiling.
meetsHardConstraintsParametersFirst(model, constraints, exclusionReasons, t) ==
    IF constraints.present /\ violatesRequiredParameters(model, constraints)
    THEN Excluded(exclusionReasons, "missing_required_parameters")
    ELSE IF violatesMaxAge(model, constraints, t)
    THEN Excluded(exclusionReasons, "too_old")
    ELSE IF ~constraints.present
    THEN Passed(exclusionReasons)
    ELSE IF violatesInputModalities(model, constraints)
    THEN Excluded(exclusionReasons, "input_modality_mismatch")
    ELSE IF violatesOutputModalities(model, constraints)
    THEN Excluded(exclusionReasons, "output_modality_mismatch")
    ELSE IF violatesProviders(model, constraints)
    THEN Excluded(exclusionReasons, "provider_not_allowed")
    ELSE IF violatesExcludeFree(model, constraints)
    THEN Excluded(exclusionReasons, "free_model")
    ELSE IF violatesMaxPricePer1m(model, constraints)
    THEN Excluded(exclusionReasons, "too_expensive")
    ELSE Passed(exclusionReasons)

\* Description-similarity variant.
meetsHardConstraints(model, constraints, exclusionReasons, t) ==
    IF violatesMaxAge(model, constraints, t)
    THEN Excluded(exclusionReasons, "too_old")
    ELSE IF ~constraints.present
    THEN Passed(exclusionReasons)
    ELSE IF violatesRequiredParameters(model, constraints)
    THEN Excluded(exclusionReasons, "missing_required_parameters")
    ELSE IF violatesInputModalities(model, constraints)
    THEN Excluded(exclusionReasons, "input_modality_mismatch")
    ELSE IF violatesOutputModalities(model, constraints)
    THEN Excluded(exclusionReasons, "output_modality_mismatch")
    ELSE IF violatesProviders(model, constraints)
    THEN Excluded(exclusionReasons, "provider_not_allowed")
    ELSE IF violatesExcludeFree(model, constraints)
    THEN Excluded(exclusionReasons, "free_model")
    ELSE IF violatesMaxPricePer1m(model, constraints)
    THEN Excluded(exclusionReasons, "too_expensive")
    ELSE Passed(exclusionReasons)

\* Ordinal variant.
meetsHardConstraintsOrdinal(model, constraints, exclusionReasons, t) ==
    IF ~constraints.present
    THEN Passed(exclusionReasons)
    ELSE IF violatesInputModalities(model, constraints)
    THEN Excluded(exclusionReasons, "input_modality_mismatch")
    ELSE IF violatesOutputModalities(model, constraints)
    THEN Excluded(exclusionReasons, "output_modality_mismatch")
    ELSE IF violatesMinContextLength(model, constraints)
    THEN Excluded(exclusionReasons, "context_too_small")
    ELSE IF violatesPromptPrice(model, constraints)
    THEN Excluded(exclusionReasons, "prompt_price_too_high")
    ELSE IF violatesCompletionPrice(model, constraints)
    THEN Excluded(exclusionReasons, "completion_price_too_high")
    ELSE IF violatesRequestPrice(model, constraints)
    THEN Excluded(exclusionReasons, "request_price_too_high")
    ELSE IF violatesRequiredParameters(model, constraints)
    THEN Excluded(exclusionReasons, "missing_required_parameters")
    ELSE IF violatesMinAge(model, constraints, t)
    THEN Excluded(exclusionReasons, "too_new")
    ELSE IF violatesExcludeFree(model, constraints)
    THEN Excluded(exclusionReasons, "free_model")
    ELSE IF violatesProviders(model, constraints)
    THEN Excluded(exclusionReasons, "provider_not_allowed")
    ELSE Passed(exclusionReasons)

\* Weighted-composite variant.
meetsHardConstraintsWeighted(model, constraints, exclusionReasons, t) ==
    IF ~constraints.present
    THEN Passed(exclusionReasons)
    ELSE IF violatesRequiredParameters(model, constraints)
    THEN Excluded(exclusionReasons, "missing_required_parameters")
    ELSE IF violatesInputModalities(model, constraints)
    THEN Excluded(exclusionReasons, "input_modality_mismatch")
    ELSE IF violatesOutputModalities(model, constraints)
    THEN Excluded(exclusionReasons, "output_modality_mismatch")
    ELSE IF violatesProviders(model, constraints)
    THEN Excluded(exclusionReasons, "provider_not_allowed")
    ELSE IF violatesExcludeFree(model, constraints)
    THEN Excluded(exclusionReasons, "free_model")
    ELSE Passed(exclusionReasons)

\* The variants of the recommender.
Variants == {"description", "ordinal", "weighted"}

\* meetsHardConstraints of the variant in use.
hardFilterStep(variant, model, constraints, exclusionReasons, t) ==
    CASE variant = "description" ->
            meetsHardConstraints(model, constraints, exclusionReasons, t)
      [] variant = "ordinal" ->
            meetsHardConstraintsOrdinal(model, constraints, exclusionReasons, t)
      [] variant = "weighted" ->
            meetsHardConstraintsWeighted(model, constraints, exclusionReasons, t)

\* allModels.filter(model => meetsHardConstraints(model, constraints,
\* exclusionReasons)): the survivors in catalog order and the tally, the
\* callback run on each model in turn.
RECURSIVE hardFilterFrom(_, _, _, _, _, _)
hardFilterFrom(variant, allModels, constraints, t, i, acc) ==
    IF i > Len(allModels) THEN acc
    ELSE LET r == hardFilterStep(variant, allModels[i], constraints,
                                 acc.exclusionReasons, t)
         IN  hardFilterFrom(variant, allModels, constraints, t, i + 1,
                [filtered |-> IF r.pass
                              THEN Append(acc.filtered, allModels[i])
                              ELSE acc.filtered,
                 exclusionReasons |-> r.exclusionReasons])

hardFilter(variant, allModels, constraints, t) ==
    hardFilterFrom(variant, allModels, constraints, t, 1,
                   [filtered |-> <<>>, exclusionReasons |-> EmptyMap])

\* ------------------------------------------------------------------------
\* Request skeleton

\* `${modelId}:exacto`
exactoId(modelId) == modelId \o <<":", "exacto">>

\* The variant lookup comparing against the id without its suffix.
hasExactoVariantUnsuffixed(modelId, models) ==
    \E i \in DOMAIN models : models[i].id = modelId

hasExactoVariant(modelId, models) ==
    \E i \in DOMAIN models : models[i].id = exactoId(modelId)

\* requiredParams is spec.hard_constraints?.required_parameters: an absent
\* list and an empty one are both <<>> (neither has a member).
requiredParamsOf(taskSpec) ==
    IF taskSpec.hard_constraints.present
    THEN taskSpec.hard_constraints.required_parameters
    ELSE <<>>

generateSkeleton(model, models, preferences, requiredParams) ==
    LET preferExacto == IF ~preferences.present
                           \/ preferences.prefer_exacto_for_tools = UndefinedStr
                        THEN TRUE
                        ELSE preferences.prefer_exacto_for_tools = "true"
        routing      == IF ~preferences.present
                           \/ preferences.routing = UndefinedStr
                        THEN "price" ELSE preferences.routing
        needsExacto  == \E i \in DOMAIN requiredParams :
                            requiredParams[i] \in {"tools", "tool_choice"}
        modelIdToUse == IF preferExacto /\ needsExacto
                           /\ hasExactoVariant(model.id, models)
                        THEN exactoId(model.id)
                        ELSE model.id
    IN  [model    |-> modelIdToUse,
         messages |-> <<>>,
         provider |-> [require_parameters |-> TRUE,
                       allow_fallbacks    |-> TRUE,
                       sort               |-> routing]]

\* ------------------------------------------------------------------------
\* Ranking: the ordinal sort and the weighted composite score

\* a + b on prices, either of which can be Infinity
plus(a, b) == IF a = Infinity \/ b = Infinity THEN Infinity ELSE a + b

\* The sign of a - b, which is all Array.prototype.sort reads of what the
\* comparator returns; the operands differ or are both finite.
signOfDifference(a, b) == IF a < b THEN -1 ELSE IF a > b THEN 1 ELSE 0

\* a / b as a fraction of one in units of 1/FixedScale, to three decimals,
\* for 0 <= a <= b
fraction(a, b) == ((a * 1000) \div b) * (FixedScale \div 1000)

\* Array.prototype.sort(cmp) as Node's engine runs it on an array shorter
\* than its minimum run length: the run at the head of the array is
\* counted (and reversed when it descends strictly), then each further
\* element is put into the sorted head by binary insertion. cmp is the
\* comparator as a function on pairs of elements. With a comparator that
\* is a total preorder this is any stable sort; with one that is not, the
\* outcome is the one these comparisons give.

\* The last index of the run that starts at 1, k being the next index to
\* look at.
RECURSIVE runEnd(_, _, _, _)
runEnd(xs, k, descending, cmp) ==
    IF k > Len(xs) THEN k - 1
    ELSE IF descending = (cmp[<<xs[k], xs[k - 1]>>] < 0)
         THEN runEnd(xs, k + 1, descending, cmp)
         ELSE k - 1

reverse(xs) == [k \in DOMAIN xs |-> xs[Len(xs) + 1 - k]]

\* The number of elements of the sorted head that stay before the pivot;
\* left and right count from 0 as in the engine.
RECURSIVE binarySearch(_, _, _, _, _)
binarySearch(head, pivot, left, right, cmp) ==
    IF left >= right THEN left
    ELSE LET mid == left + (right - left) \div 2
         IN  IF cmp[<<pivot, head[mid + 1]>>] < 0
             THEN binarySearch(head, pivot, left, mid, cmp)
             ELSE binarySearch(head, pivot, mid + 1, right, cmp)

RECURSIVE binaryInsertionSort(_, _, _, _)
binaryInsertionSort(xs, start, head, cmp) ==
    IF start > Len(xs) THEN head
    ELSE LET left == binarySearch(head, xs[start], 0, Len(head), cmp)
         IN  binaryInsertionSort(xs, start + 1,
                 SubSeq(head, 1, left) \o <<xs[start]>>
                     \o SubSeq(head, left + 1, Len(head)),
                 cmp)

sort(xs, cmp) ==
    IF Len(xs) < 2 THEN xs
    ELSE LET descending == cmp[<<xs[2], xs[1]>>] < 0
             n == runEnd(xs, 3, descending, cmp)
             run == SubSeq(xs, 1, n)
         IN  binaryInsertionSort(xs, n + 1,
                 IF descending THEN reverse(run) ELSE run, cmp)

\* covered, of covered / requiredParams.length
coveredCount(model, requiredParams) ==
    Len(FilterSeq(requiredParams,
                  {p \in Range(requiredParams) :
                      p \in model.supported_parameters}))

\* getParamCoverageScore and getParamScore, in units of 1/FixedScale
getParamCoverageScore(model, requiredParams) ==
    IF Len(requiredParams) = 0 THEN FixedScale
    ELSE (coveredCount(model, requiredParams) * FixedScale)
            \div Len(requiredParams)

getTotalPrice(model) ==
    plus(parsePrice(model.pricing.prompt), parsePrice(model.pricing.completion))

\* preferences?.prefer_newer ?? true
preferNewerOf(preferences) ==
    IF ~preferences.present \/ preferences.prefer_newer = UndefinedStr
    THEN TRUE ELSE preferences.prefer_newer = "true"

\* preferences?.routing ?? 'price'
routingOf(preferences) ==
    IF ~preferences.present \/ preferences.routing = UndefinedStr
    THEN "price" ELSE preferences.routing

\* The comparator of sortModels with the price key taken in descending
\* order.
compareModelsPriciestFirst(a, b, preferences, requiredParams) ==
    LET coverageA == getParamCoverageScore(a, requiredParams)
        coverageB == getParamCoverageScore(b, requiredParams)
        priceA    == getTotalPrice(a)
        priceB    == getTotalPrice(b)
        createdA  == IF a.created = Undefined THEN 0 ELSE a.created
        createdB  == IF b.created = Undefined THEN 0 ELSE b.created
    IN  IF coverageA # coverageB THEN signOfDifference(coverageB, coverageA)
        ELSE IF routingOf(preferences) = "price" /\ priceA # priceB
        THEN signOfDifference(priceB, priceA)
        ELSE IF preferNewerOf(preferences) /\ createdA # createdB
        THEN signOfDifference(createdB, createdA)
        ELSE signOfDifference(b.context_length, a.context_length)

\* The comparator of sortModels: negative when a goes first.
compareModels(a, b, preferences, requiredParams) ==
    LET coverageA == getParamCoverageScore(a, requiredParams)
        coverageB == getParamCoverageScore(b, requiredParams)
        priceA    == getTotalPrice(a)
        priceB    == getTotalPrice(b)
        createdA  == IF a.created = Undefined THEN 0 ELSE a.created
        createdB  == IF b.created = Undefined THEN 0 ELSE b.created
    IN  IF coverageA # coverageB THEN signOfDifference(coverageB, coverageA)
        ELSE IF routingOf(preferences) = "price" /\ priceA # priceB
        THEN signOfDifference(priceA, priceB)
        ELSE IF preferNewerOf(preferences) /\ createdA # createdB
        THEN signOfDifference(createdB, createdA)
        ELSE signOfDifference(b.context_length, a.context_length)

\* [...models].sort(comparator)
sortModels(models, preferences, requiredParams) ==
    sort(models,
         [p \in Range(models) \X Range(models) |->
             compareModels(p[1], p[2], preferences, requiredParams)])

\* soft_constraints?.target_price as getPriceScore reads it:
\* (prompt_per_1m || 0) + (completion_per_1m || 0), 0 with no target
targetTotalOf(targetPrice) ==
    IF ~targetPrice.present THEN 0
    ELSE (IF targetPrice.prompt_per_1m = Undefined
          THEN 0 ELSE targetPrice.prompt_per_1m)
         + (IF targetPrice.completion_per_1m = Undefined
            THEN 0 ELSE targetPrice.completion_per_1m)

\* The sub-scores of the weighted composite, in units of 1/FixedScale.
getPriceScore(model, targetPrice) ==
    LET totalPrice  == getTotalPrice(model)
        targetTotal == targetTotalOf(targetPrice)
        avgPrice    == 10
    IN  IF totalPrice = 0 THEN FixedScale
        ELSE IF totalPrice = Infinity THEN 0
        ELSE IF targetTotal > 0
        THEN IF totalPrice <= targetTotal THEN FixedScale
             ELSE Max(0, FixedScale
                           - (FixedScale * (totalPrice - targetTotal))
                                \div (2 * targetTotal))
        ELSE IF totalPrice <= avgPrice THEN FixedScale
        ELSE Max(0, FixedScale
                      - (FixedScale * (totalPrice - avgPrice))
                           \div (avgPrice * 10))

getParamScore(model, requiredParams) ==
    getParamCoverageScore(model, requiredParams)

getRecencyScore(model, preferNewer, minAgeDays, t) ==
    LET ageDays == getModelAgeDays(model, t)
    IN  IF ageDays = Infinity THEN FixedScale \div 2
        ELSE IF minAgeDays # Undefined /\ ageDays < minAgeDays
        THEN Max(FixedScale \div 5, (FixedScale * ageDays) \div minAgeDays)
        ELSE IF preferNewer
        THEN IF ageDays <= 30 THEN FixedScale
             ELSE Max((FixedScale * 3) \div 10,
                      FixedScale - (FixedScale * (ageDays - 30)) \div 700)
        ELSE IF ageDays >= 180 THEN FixedScale
             ELSE Max(FixedScale \div 2, (FixedScale * ageDays) \div 180)

getContextScore(model, targetContext) ==
    IF targetContext = Undefined \/ targetContext = 0 THEN FixedScale
    ELSE IF model.context_length >= targetContext THEN FixedScale
    ELSE fraction(model.context_length, targetContext)

\* DEFAULT_WEIGHTS, in hundredths
DEFAULT_WEIGHTS ==
    [semantic |-> 35, price |-> 20, parameters |-> 25, recency |-> 10,
     context |-> 10]

\* { ...DEFAULT_WEIGHTS, ...spec.preferences?.scoring_weights }: the schema
\* fills in every weight of a scoring_weights object that is supplied.
weightsOf(preferences) ==
    IF preferences.present /\ preferences.scoring_weights.present
    THEN [k \in DOMAIN DEFAULT_WEIGHTS |-> preferences.scoring_weights[k]]
    ELSE DEFAULT_WEIGHTS

\* A shortlist entry without a score breakdown.
NoScore ==
    [semantic |-> 0, price |-> 0, parameters |-> 0, recency |-> 0,
     context |-> 0, total |-> 0]

\* calculateScore: the ScoreBreakdown, each number in units of 1/FixedScale;
\* the weights are hundredths.
calculateScore(model, semanticScore, spec, weights, t) ==
    LET priceScore   == getPriceScore(model, spec.soft_constraints.target_price)
        paramScore   == getParamScore(model, requiredParamsOf(spec))
        recencyScore == getRecencyScore(model,
                                        preferNewerOf(spec.preferences),
                                        spec.soft_constraints.min_age_days, t)
        contextScore == getContextScore(model,
                            spec.soft_constraints.target_context_length)
        total == (weights.semantic * semanticScore
                  + weights.price * priceScore
                  + weights.parameters * paramScore
                  + weights.recency * recencyScore
                  + weights.context * contextScore) \div 100
    IN  [semantic |-> semanticScore, price |-> priceScore,
         parameters |-> paramScore, recency |-> recencyScore,
         context |-> contextScore, total |-> total]

\* secondarySort's comparator: the semantic score, descending, outside a
\* band of 0.01; within it the price, ascending, when routing is price.
compareScored(a, b, routing) ==
    LET scoreDiff == b.score.semantic - a.score.semantic
        abs       == IF scoreDiff < 0 THEN 0 - scoreDiff ELSE scoreDiff
    IN  IF abs > FixedScale \div 100 THEN signOfDifference(scoreDiff, 0)
        ELSE IF routing = "price"
        THEN signOfDifference(getMaxPrice(a.model), getMaxPrice(b.model))
        ELSE 0

\* The survivors as the ranking step of each variant orders them, each with
\* its score: sortModels in the ordinal variant, the composite total in
\* descending order in the weighted-composite variant, secondarySort in the
\* description-similarity variant. semantic gives the semantic score of
\* each survivor's id.
\* generateReasons of the weighted-composite variant: the reasons a
\* breakdown earns, and the total alone when it earns none.
generateReasons(score, spec) ==
    LET reasons ==
            (IF score.semantic >= (FixedScale * 7) \div 10
             THEN <<"high semantic match">> ELSE <<>>)
            \o (IF score.parameters = FixedScale
                THEN <<"full param support">> ELSE <<>>)
            \o (IF score.price >= (FixedScale * 8) \div 10
                THEN <<"good price">> ELSE <<>>)
            \o (IF /\ score.context = FixedScale
                   /\ spec.soft_constraints.target_context_length # Undefined
                   /\ spec.soft_constraints.target_context_length # 0
                THEN <<"context>=target">> ELSE <<>>)
    IN  IF Len(reasons) = 0 THEN <<"score: total">> ELSE reasons

rank(v, models, spec, semantic, t) ==
    LET requiredParams == requiredParamsOf(spec)
    IN  CASE v = "ordinal" ->
                LET sortedModels == sortModels(models, spec.preferences,
                                               requiredParams)
                IN  [k \in DOMAIN sortedModels |->
                        [model |-> sortedModels[k], score |-> NoScore]]
          [] v = "weighted" ->
                LET scored == [k \in DOMAIN models |->
                        [model |-> models[k],
                         score |-> calculateScore(models[k],
                                      semantic[models[k].id], spec,
                                      weightsOf(spec.preferences), t)]]
                IN  sort(scored,
                         [p \in Range(scored) \X Range(scored) |->
                             signOfDifference(p[2].score.total,
                                              p[1].score.total)])
          [] v = "description" ->
                LET scored == [k \in DOMAIN models |->
                        [model |-> models[k],
                         score |-> [NoScore EXCEPT
                                      !.semantic = semantic[models[k].id]]]]
                IN  sort(scored,
                         [p \in Range(scored) \X Range(scored) |->
                             compareScored(p[1], p[2],
                                           routingOf(spec.preferences))])

\* ------------------------------------------------------------------------
\* The inputs of the model: models, catalogs, task specifications

DaysAgo(d) == EpochSec - d * SecondsPerDay

NoPricing == [prompt |-> UndefinedStr, completion |-> UndefinedStr,
              request |-> UndefinedStr, image |-> UndefinedStr]

ModelA ==
    [id |-> <<"anthropic", "/", "x">>, description |-> "code",
     created |-> DaysAgo(45),
     context_length |-> 200000, modality |-> <<"text", "->", "text">>,
     pricing |-> [NoPricing EXCEPT !.prompt = "0.000003",
                                   !.completion = "0.000015"],
     supported_parameters |-> {"tools"}]

ModelB ==
    [id |-> <<"openai", "/", "y">>, description |-> "",
     created |-> DaysAgo(400),
     context_length |-> 8000, modality |-> <<>>,
     pricing |-> [NoPricing EXCEPT !.prompt = "0.000001",
                                   !.completion = "0.000002",
                                   !.request = "0.000001"],
     supported_parameters |-> {}]

ModelC ==
    [id |-> <<"meta", "/", "z", ":", "free">>, description |-> "chat",
     created |-> DaysAgo(10),
     context_length |-> 128000, modality |-> <<"text", "->", "text">>,
     pricing |-> [NoPricing EXCEPT !.prompt = "0", !.completion = "0"],
     supported_parameters |-> {"tools"}]

ModelAExacto ==
    [ModelA EXCEPT !.id = <<"anthropic", "/", "x", ":", "exacto">>,
                   !.supported_parameters = {"tools", "tool_choice"}]

\* A model the provider describes only in part: no creation time, an empty
\* prompt price, a provider name in capitals, two input modalities, images
\* as output.
ModelE ==
    [id |-> <<"OpenAI", "/", "v">>, description |-> UndefinedStr,
     created |-> Undefined,
     context_length |-> 32000,
     modality |-> <<"Text", "+", "image", "->", "image">>,
     pricing |-> [NoPricing EXCEPT !.prompt = "", !.completion = "0.000002",
                                   !.request = "0.000001"],
     supported_parameters |-> {"tool_choice", "reasoning"}]

\* A free, recent image model that supports none of the parameters.
ModelF ==
    [id |-> <<"anthropic", "/", "w">>, description |-> "chat",
     created |-> DaysAgo(3),
     context_length |-> 4000,
     modality |-> <<"text", ",", "image", "->", "image">>,
     pricing |-> [NoPricing EXCEPT !.prompt = "0", !.completion = "0"],
     supported_parameters |-> {}]

\* A recent model with tool support whose prompt price the provider leaves
\* out and whose completion price is 0.
ModelG ==
    [ModelA EXCEPT !.id = <<"anthropic", "/", "u">>,
                   !.pricing = [NoPricing EXCEPT !.completion = "0"]]

ModelPool == {ModelA, ModelB, ModelC, ModelAExacto, ModelE, ModelF}

\* The three-model catalog of the worked scenario.
ScenarioCatalog == <<ModelA, ModelB, ModelC>>

\* Catalogs: no two models of a catalog share an id.
CatalogsUpTo(n) ==
    {c \in UNION {[1..k -> ModelPool] : k \in 0..n} :
        \A i, j \in DOMAIN c : i # j => c[i].id # c[j].id}

\* Three models of the last two months, the free ones first.
RecentCatalog == <<ModelC, ModelF, ModelA>>

\* A catalog with a model whose prompt price is missing.
UnpricedCatalog == <<ModelG, ModelA>>

Catalogs ==
    CatalogsUpTo(MaxCatalogLen)
        \cup {ScenarioCatalog, RecentCatalog, UnpricedCatalog}

NoMaxPrice == [present |-> FALSE, prompt_per_1m |-> Undefined,
               completion_per_1m |-> Undefined, request |-> Undefined]

\* hard_constraints not supplied.
NoConstraints ==
    [present |-> FALSE, required_parameters |-> <<>>,
     input_modalities |-> <<>>, output_modalities |-> <<>>,
     providers |-> <<>>, exclude_free |-> FALSE,
     max_age_days |-> Undefined, max_price_per_1m |-> Undefined,
     min_context_length |-> Undefined, max_price |-> NoMaxPrice,
     min_age_days |-> Undefined]

\* hard_constraints: {}
EmptyConstraints == [NoConstraints EXCEPT !.present = TRUE]

\* {required_parameters: ["tools"], exclude_free: true}
ScenarioConstraints ==
    [EmptyConstraints EXCEPT !.required_parameters = <<"tools">>,
                             !.exclude_free = TRUE]

\* Constraints every variant's schema accepts.
CommonConstraints ==
    { NoConstraints, EmptyConstraints, ScenarioConstraints,
      [EmptyConstraints EXCEPT !.required_parameters = <<"tools", "tool_choice">>,
                               !.providers = << <<"Anthropic">>, <<"meta">> >>,
                               !.exclude_free = TRUE],
      [EmptyConstraints EXCEPT !.input_modalities = << <<"image">> >>,
                               !.output_modalities = << <<"text">> >>,
                               !.providers = << <<"openai">> >>] }

\* Constraints with the fields only the description-similarity schema has.
DescriptionConstraints ==
    { [EmptyConstraints EXCEPT !.max_age_days = 30,
                               !.required_parameters = <<"tools">>,
                               !.exclude_free = TRUE,
                               !.max_price_per_1m = 10],
      [EmptyConstraints EXCEPT !.max_age_days = 1000,
                               !.providers = << <<"anthropic">> >>,
                               !.max_price_per_1m = 2] }

\* Constraints with the fields only the ordinal schema has.
OrdinalConstraints ==
    { [EmptyConstraints EXCEPT !.min_context_length = 100000,
                               !.required_parameters = <<"tools">>,
                               !.min_age_days = 30],
      [EmptyConstraints EXCEPT
          !.max_price = [present |-> TRUE, prompt_per_1m |-> 3,
                         completion_per_1m |-> 10, request |-> 0],
          !.exclude_free = TRUE,
          !.providers = << <<"anthropic">> >>],
      [EmptyConstraints EXCEPT !.min_age_days = 0],
      [EmptyConstraints EXCEPT !.min_age_days = 100000] }

ConstraintsOf(v) ==
    CASE v = "description" -> CommonConstraints \cup DescriptionConstraints
      [] v = "ordinal"     -> CommonConstraints \cup OrdinalConstraints
      [] v = "weighted"    -> CommonConstraints

\* HardConstraintsSchema.parse: the description-similarity schema fills in
\* max_age_days when the object is supplied without it.
parseHardConstraints(v, constraints) ==
    IF v = "description" /\ constraints.present
       /\ constraints.max_age_days = Undefined
    THEN [constraints EXCEPT !.max_age_days = 365]
    ELSE constraints

\* scoring_weights not supplied; supplied, its weights are hundredths.
NoWeights ==
    [present |-> FALSE, semantic |-> 0, price |-> 0, parameters |-> 0,
     recency |-> 0, context |-> 0]

NoPreferences == [present |-> FALSE, prefer_exacto_for_tools |-> UndefinedStr,
                  routing |-> UndefinedStr, prefer_newer |-> UndefinedStr,
                  scoring_weights |-> NoWeights]

PreferencesPool ==
    { NoPreferences,
      [NoPreferences EXCEPT !.present = TRUE,
                            !.prefer_exacto_for_tools = "true",
                            !.routing = "price"],
      [NoPreferences EXCEPT !.present = TRUE,
                            !.prefer_exacto_for_tools = "false",
                            !.routing = "latency"] }

\* Preferences with prefer_newer, which the ordinal and the
\* weighted-composite schemas have.
NewerPreferences ==
    { [NoPreferences EXCEPT !.present = TRUE, !.routing = "price",
                            !.prefer_newer = "false"],
      [NoPreferences EXCEPT !.present = TRUE, !.routing = "throughput",
                            !.prefer_newer = "true"] }

\* Preferences with scoring_weights, which the weighted-composite schema
\* has: every weight at its maximum of 1; the price alone.
WeightedPreferences ==
    { [NoPreferences EXCEPT
          !.present = TRUE,
          !.scoring_weights = [present |-> TRUE, semantic |-> 100,
                               price |-> 100, parameters |-> 100,
                               recency |-> 100, context |-> 100]],
      [NoPreferences EXCEPT
          !.present = TRUE, !.prefer_newer = "false",
          !.scoring_weights = [NoWeights EXCEPT !.present = TRUE,
                                                !.price = 100]] }

PreferencesOf(v) ==
    CASE v = "description" -> PreferencesPool
      [] v = "ordinal"     -> PreferencesPool \cup NewerPreferences
      [] v = "weighted"    -> PreferencesPool \cup NewerPreferences
                                 \cup WeightedPreferences

\* soft_constraints not supplied.
NoSoftConstraints ==
    [present |-> FALSE, target_context_length |-> Undefined,
     target_price |-> NoMaxPrice, min_age_days |-> Undefined]

\* soft_constraints, which the weighted-composite schema has.
SoftConstraintsOf(v) ==
    IF v = "weighted"
    THEN { NoSoftConstraints,
           [present |-> TRUE, target_context_length |-> 100000,
            target_price |-> [NoMaxPrice EXCEPT !.present = TRUE,
                                                !.prompt_per_1m = 1,
                                                !.completion_per_1m = 2],
            min_age_days |-> 30] }
    ELSE { NoSoftConstraints }

\* The semantic scores a survivor can be given, in units of 1/FixedScale.
SemanticScores ==
    {0, FixedScale \div 2, (FixedScale * 507) \div 1000,
     (FixedScale * 514) \div 1000, FixedScale}

\* ------------------------------------------------------------------------
\* State

VARIABLES
    variant,           \* which variant of the recommender is built
    now,               \* the clock: Date.now() - EpochSec * 1000
    \* the synchronous part of one task2model call, on its own
    allModels,         \* cache.data
    taskSpec,          \* spec, as the schema parsed it
    cursor,            \* the index of the next model the filter callback gets
    exclusionReasons,  \* the Map the filter callback fills
    filtered,          \* the survivors so far, in catalog order
    skeletons,         \* the request skeletons built so far, one per survivor
    sorted,            \* what the ranking step made of the survivors
    \* the server process
    apiKey,            \* process.env.OPENROUTER_API_KEY
    booted,            \* startServer has run initializeCache and is connected
    modelsCache,       \* cache.ts: let modelsCache
    embeddingsCache,   \* cache.ts: let embeddingsCache
    disk,              \* models.json, meta.json, embeddings.json in CACHE_DIR
    pendingWrites,     \* writeFile calls of saveToDisk not yet settled
    pendingEmbWrites,  \* saveEmbeddingsToDisk calls not yet settled
    unhandled,         \* a promise rejection reached no handler
    req,               \* the tool calls in flight, one record per slot
    callsLeft,         \* tool calls the client has still to send
    agenda,            \* the tool calls the client of this run sends
    lastSet,           \* the argument and the time of the latest setModelsCache
                       \* call, and the entries installed so far
    completed,         \* the tool call that has returned, until its response is sent
    previous           \* the snapshot of the call whose response was sent last

pureVars == <<allModels, taskSpec, cursor, exclusionReasons, filtered, skeletons,
              sorted>>

procVars == <<apiKey, booted, modelsCache, embeddingsCache, disk,
              pendingWrites, pendingEmbWrites, unhandled, req, callsLeft,
              agenda, lastSet, completed, previous>>

vars == <<variant, now, pureVars, procVars>>

\* ------------------------------------------------------------------------
\* The server process: timestamps, errors, the catalog cache and its files

\* Date.prototype.toISOString and new Date(iso).getTime(): both keep the
\* millisecond, so the string is the count under a tag.
toISOString(ms) == [iso |-> ms]

getTime(iso) == iso.iso

\* errors.ts
createError(code, message) == [code |-> code, message |-> message]

authRequired(message) == createError("AUTH_REQUIRED", message)

networkError(message) == createError("NETWORK_ERROR", message)

upstreamError(message) == createError("UPSTREAM_ERROR", message)

NoError == createError("", "")

\* CacheEntry<OpenRouterModel[]> | null
NoEntry == [present |-> FALSE, data |-> <<>>, fetched_at |-> toISOString(0),
            expires_at |-> toISOString(0)]

\* EmbeddingsCache | null
NoEmbeddings == [present |-> FALSE, embeddings |-> EmptyMap,
                 fetched_at |-> toISOString(0), model_count |-> 0]

\* EMBEDDINGS_TTL_MS, 24 hours in the source, on the scale of the model's
\* clock.
EMBEDDINGS_TTL_MS == 1

\* BATCH_SIZE, 100 in the source, on the scale of the model's catalogs.
BATCH_SIZE == 2

getCacheTTL == CacheTTL

\* The comparison that lets an entry expiring at this very millisecond pass.
isCacheValidInclusive(entry, t) ==
    IF ~entry.present THEN FALSE
    ELSE getTime(entry.expires_at) >= t

isCacheValid(entry, t) ==
    IF ~entry.present THEN FALSE
    ELSE getTime(entry.expires_at) > t

\* A snapshot that keeps the models of the one it replaces.
setModelsCacheMerging(models, t, old) ==
    [present |-> TRUE, data |-> old.data \o models,
     fetched_at |-> toISOString(t),
     expires_at |-> toISOString(t + getCacheTTL)]

\* The entry setModelsCache builds, assigns to modelsCache and returns; old
\* is the entry it replaces.
setModelsCache(models, t, old) ==
    [present |-> TRUE, data |-> models,
     fetched_at |-> toISOString(t),
     expires_at |-> toISOString(t + getCacheTTL)]

\* getCacheStatus
getCacheStatus(entry, source, t) ==
    [fetched_at |-> entry.fetched_at,
     cache_age_ms |-> t - getTime(entry.fetched_at),
     source |-> source]

\* A file of CACHE_DIR: missing, unparsable, or holding what JSON.stringify
\* wrote.
MissingFile(content) == [state |-> "missing", content |-> content]

metaOf(entry) ==
    [fetched_at |-> entry.fetched_at, expires_at |-> entry.expires_at,
     model_count |-> Len(entry.data)]

embeddingsFileOf(cache) ==
    [embeddings |-> cache.embeddings, fetched_at |-> cache.fetched_at,
     model_count |-> cache.model_count]

EmptyDisk ==
    [models |-> MissingFile(<<>>),
     meta |-> MissingFile(metaOf(NoEntry)),
     embeddings |-> MissingFile(embeddingsFileOf(NoEmbeddings))]

\* saveToDisk(entry): the two writeFile calls of its Promise.all.
saveToDisk(entry) ==
    { [file |-> "models", entry |-> entry],
      [file |-> "meta", entry |-> entry] }

\* What a writeFile call leaves in its file: the content when it succeeds,
\* the file as it was when it fails before writing, an unparsable file when
\* it fails part-way.
WriteOutcomes == {"written", "failed", "torn"}

\* A file that JSON.parse throws on.
CorruptFile(name) == [state |-> "corrupt", content |-> EmptyDisk[name].content]

writeFile(d, name, outcome, content) ==
    CASE outcome = "written" ->
            [d EXCEPT ![name] = [state |-> "ok", content |-> content]]
      [] outcome = "torn"    -> [d EXCEPT ![name] = CorruptFile(name)]
      [] outcome = "failed"  -> d

\* loadFromDisk without the validity check.
loadFromDiskUnchecked(d, t) ==
    IF d.models.state = "ok" /\ d.meta.state = "ok"
    THEN [present |-> TRUE, data |-> d.models.content,
          fetched_at |-> d.meta.content.fetched_at,
          expires_at |-> d.meta.content.expires_at]
    ELSE NoEntry

\* loadFromDisk: the value modelsCache has afterwards, given that it was
\* null before. A missing or unparsable file throws inside the try block.
loadFromDisk(d, t) ==
    IF d.models.state = "ok" /\ d.meta.state = "ok"
    THEN LET entry == [present |-> TRUE, data |-> d.models.content,
                       fetched_at |-> d.meta.content.fetched_at,
                       expires_at |-> d.meta.content.expires_at]
         IN  IF isCacheValid(entry, t) THEN entry ELSE NoEntry
    ELSE NoEntry

\* loadEmbeddingsFromDisk: the value embeddingsCache has afterwards.
loadEmbeddingsFromDisk(d, t) ==
    IF d.embeddings.state = "ok"
    THEN LET cache == d.embeddings.content
         IN  IF t - getTime(cache.fetched_at) > EMBEDDINGS_TTL_MS
             THEN NoEmbeddings
             ELSE [present |-> TRUE, embeddings |-> cache.embeddings,
                   fetched_at |-> cache.fetched_at,
                   model_count |-> cache.model_count]
    ELSE NoEmbeddings

\* The handler of a rejected save that lets the rejection through.
onSaveRejectedUnhandled(rejections) == TRUE

\* .catch(() => {}) on the promise of saveToDisk and saveEmbeddingsToDisk:
\* whether a rejection is left without a handler afterwards.
onSaveRejected(rejections) == rejections

\* ------------------------------------------------------------------------
\* The server process: the credential, the provider, the tool calls

\* Values of OPENROUTER_API_KEY: unset, a key.
ApiKeys == {UndefinedStr, "sk-or-v1-0123456789"}

\* key.length
keyLength(key) ==
    CASE key = "sk-or-..."           -> 9
      [] key = "sk-or-v1-0123456789" -> 19
      [] key = "sk-or-1"             -> 7
      [] OTHER                       -> 0

getApiKey(raw) ==
    IF raw = UndefinedStr \/ raw = "" THEN UndefinedStr
    ELSE IF raw = "sk-or-..." \/ raw = "sk-or-xxx" \/ keyLength(raw) < 10
         THEN UndefinedStr
         ELSE raw

hasApiKey(raw) == getApiKey(raw) # UndefinedStr

\* getApiKeyStatus(raw).valid
getApiKeyStatus(raw) ==
    IF raw = UndefinedStr \/ raw = "" THEN FALSE
    ELSE IF raw = "sk-or-..." \/ raw = "sk-or-xxx" THEN FALSE
    ELSE IF keyLength(raw) < 10 THEN FALSE
    ELSE TRUE

\* What GET /models answers with when it answers.
ProviderCatalogs == {<<ModelA, ModelAExacto, ModelF>>}

\* ClientResult<T>
Ok(data) == [ok |-> TRUE, data |-> data, error |-> NoError]

Err(error) == [ok |-> FALSE, data |-> <<>>, error |-> error]

\* What fetch does with a request: it resolves with a response of some
\* status whose body parses to data, or it throws.
Response(status, data) == [thrown |-> FALSE, status |-> status, data |-> data]

Thrown == [thrown |-> TRUE, status |-> 0, data |-> <<>>]

\* The responses without a body the client reads: a refusal of the
\* credential, a server error, no connection.
FailedResponses == {Response(401, <<>>), Response(500, <<>>), Thrown}

\* `OpenRouter API returned status ${response.status}`
statusMessage(prefix, status) ==
    IF status = 500 THEN prefix \o " returned status 500"
    ELSE prefix \o " returned status " \o "4xx"

\* fetchWithErrorHandling(url, requiresAuth): requiresAuth is read in the
\* catch block only.
fetchWithErrorHandling(raw, requiresAuth, response) ==
    LET auth_used == getApiKey(raw) # UndefinedStr
    IN  IF response.thrown
        THEN IF requiresAuth /\ ~auth_used
             THEN Err(authRequired("API key required for this operation"))
             ELSE Err(networkError("Failed to connect to OpenRouter API"))
        ELSE IF response.status = 401 \/ response.status = 403
        THEN Err(authRequired("Authentication required for this endpoint"))
        ELSE IF response.status < 200 \/ response.status > 299
        THEN Err(upstreamError(statusMessage("OpenRouter API",
                                             response.status)))
        ELSE Ok(response.data)

\* getModels(): result.data.data of GET /models
getModels(raw, response) == fetchWithErrorHandling(raw, FALSE, response)

\* getEndpoints(modelId): result.data.data?.endpoints || [] of
\* GET /models/{author}/{slug}/endpoints
getEndpoints(raw, response) == fetchWithErrorHandling(raw, TRUE, response)

\* getParameters(modelId): result.data.data of GET /parameters/{author}/{slug}
getParameters(raw, response) == fetchWithErrorHandling(raw, TRUE, response)

\* The results of getModels() on a 2xx, a 401, another status, a thrown
\* fetch.
GetModelsResults ==
    {getModels(apiKey, response) :
        response \in {Response(200, c) : c \in ProviderCatalogs}
                        \cup FailedResponses}

\* An endpoint of a model as GET .../endpoints lists it.
EndpointX ==
    [name |-> "x", supported_parameters |-> {"tools"},
     context_length |-> 200000]

EndpointY ==
    [name |-> "y", supported_parameters |-> {}, context_length |-> 8000]

\* The results of getEndpoints(modelId): endpoints, no endpoint, a failure.
GetEndpointsResults ==
    {getEndpoints(apiKey, response) :
        response \in {Response(200, <<EndpointX, EndpointY>>),
                       Response(200, <<>>)} \cup FailedResponses}

\* The parameters GET /parameters/... answers with.
ProviderParameters == <<"temperature", "tools">>

\* The results of getParameters(modelId).
GetParametersResults ==
    {getParameters(apiKey, response) :
        response \in {Response(200, ProviderParameters)}
                        \cup FailedResponses}

\* The vector the embedding model gives a text.
embeddingOf(text) ==
    CASE text = "code" -> <<1, 0>>
      [] text = "chat" -> <<0, 1>>
      [] OTHER         -> <<1, 1>>

\* getEmbeddings(texts): sorted.map(d => d.embedding) of POST /embeddings
getEmbeddings(raw, texts, response) ==
    IF ~hasApiKey(raw)
    THEN Err(authRequired("API key required for embeddings"))
    ELSE IF Len(texts) = 0 THEN Ok(<<>>)
    ELSE IF response.thrown
    THEN Err(networkError("Failed to connect to OpenRouter Embeddings API"))
    ELSE IF response.status = 401 \/ response.status = 403
    THEN Err(authRequired("Embeddings auth failed"))
    ELSE IF response.status < 200 \/ response.status > 299
    THEN Err(upstreamError(statusMessage("OpenRouter Embeddings API",
                                         response.status)))
    ELSE Ok(response.data)

\* The results of getEmbeddings(texts) for the texts of a batch of models:
\* the vectors in input order, or the error of a failed call.
GetEmbeddingsResults(texts) ==
    {getEmbeddings(apiKey, texts, response) :
        response \in {Response(200, [j \in DOMAIN texts |->
                                        embeddingOf(texts[j])]),
                       Response(500, <<>>)}}

\* The results of getEmbeddings([spec.task]): those of a batch, and a 2xx
\* that carries no vector.
GetTaskEmbeddingResults(task) ==
    GetEmbeddingsResults(<<task>>)
        \cup {getEmbeddings(apiKey, <<task>>, Response(200, <<>>))}

\* buildEmbeddingText: the description alone in the description-similarity
\* variant; in the weighted-composite variant the description within a
\* text of name, provider and capabilities, which the embedding model is
\* taken to read for its description.
buildEmbeddingText(model) ==
    IF model.description = UndefinedStr THEN "" ELSE model.description

\* result: absent, or as ResultConfigSchema parsed it.
NoResultConfig ==
    [present |-> FALSE, force_refresh |-> FALSE, detail |-> UndefinedStr,
     limit |-> Undefined, include_endpoints |-> FALSE,
     include_request_skeleton |-> FALSE]

NoSpec ==
    [task |-> "", hard_constraints |-> NoConstraints,
     soft_constraints |-> NoSoftConstraints,
     preferences |-> NoPreferences, result |-> NoResultConfig]

\* The task specifications the tool is called with.
ToolSpecs(v) ==
    { [task |-> "code",
       hard_constraints |-> parseHardConstraints(v, NoConstraints),
       soft_constraints |-> NoSoftConstraints,
       preferences |-> NoPreferences,
       result |-> NoResultConfig],
      [task |-> "code",
       hard_constraints |-> parseHardConstraints(v, ScenarioConstraints),
       soft_constraints |-> NoSoftConstraints,
       preferences |-> NoPreferences,
       result |-> [NoResultConfig EXCEPT !.present = TRUE,
                                         !.force_refresh = TRUE,
                                         !.detail = "standard", !.limit = 50]],
      [task |-> "chat",
       hard_constraints |-> parseHardConstraints(v, EmptyConstraints),
       soft_constraints |-> NoSoftConstraints,
       preferences |-> NoPreferences,
       result |-> [NoResultConfig EXCEPT !.present = TRUE,
                                         !.detail = "minimal", !.limit = 1]] }

\* spec.result?.detail ?? default, the default of each variant.
detailLevelOf(v, spec) ==
    IF spec.result.present /\ spec.result.detail # UndefinedStr
    THEN spec.result.detail
    ELSE CASE v = "description" -> "names_only"
           [] v = "ordinal"     -> "standard"
           [] v = "weighted"    -> "minimal"

\* spec.result?.limit ?? default
limitOf(v, spec) ==
    IF spec.result.present /\ spec.result.limit # Undefined
    THEN spec.result.limit
    ELSE CASE v = "description" -> 100
           [] v = "ordinal"     -> 8
           [] v = "weighted"    -> 50

\* CatalogInfo of a response, absent where the response carries none.
NoCatalogInfo ==
    [present |-> FALSE, fetched_at |-> toISOString(0), cache_age_ms |-> Undefined,
     source |-> "", auth_used |-> FALSE]

\* ExcludedSummary of a response, absent where the response carries none.
NoExcludedSummary ==
    [present |-> FALSE, total_models |-> 0, after_hard_filter |-> 0,
     excluded_by |-> EmptyMap]

\* EmbeddingStatus
NoEmbeddingStatus ==
    [enabled |-> FALSE, task_embedded |-> FALSE, models_embedded |-> 0,
     models_failed |-> 0, error |-> ""]

\* EndpointsSummary of a shortlist entry, absent where the entry has none.
NoSummary == [present |-> FALSE, count |-> 0, endpoints |-> <<>>]

\* An optional field of a result that is absent.
Absent == [present |-> FALSE, data |-> <<>>]

Present(data) == [present |-> TRUE, data |-> data]

\* details of a StructuredError, absent where the error has none.
NoDetails == [present |-> FALSE, model_id |-> <<>>]

\* What a tool call returns: of task2model the task2model result (models
\* are the ids of the names_only result), of get_model_profile the profile.
NoResult ==
    [ok |-> FALSE, error |-> NoError, details |-> NoDetails, count |-> 0,
     models |-> <<>>, shortlist |-> <<>>,
     excluded_summary |-> NoExcludedSummary, catalog |-> NoCatalogInfo,
     embeddings |-> NoEmbeddingStatus,
     model |-> Absent, endpoints |-> Absent, parameters |-> Absent]

\* The arguments of get_model_profile.
NoArgs ==
    [model_id |-> <<>>, include_endpoints |-> FALSE,
     include_parameters |-> FALSE]

\* A getEndpoints call of the endpoint checks that has not settled; a
\* settled one keeps its place among the settlements of its request.
NoCheck == [settled |-> FALSE, result |-> Err(NoError), at |-> 0]

\* A slot with no tool call in it, and the locals of a call.
IdleRequest ==
    [pc |-> "idle", kind |-> "", spec |-> NoSpec, force |-> FALSE,
     cache |-> NoEntry, source |-> "cache",
     filtered |-> <<>>, exclusionReasons |-> EmptyMap,
     missingIds |-> <<>>, alreadyCached |-> 0, i |-> 0,
     newEmbeddings |-> EmptyMap, fetchError |-> "",
     embeddingStatus |-> NoEmbeddingStatus,
     taskEmbedding |-> <<>>, scoredWith |-> NoEmbeddings,
     embeddingsSeen |-> NoEmbeddings,
     shortlisted |-> <<>>, checks |-> <<>>,
     args |-> NoArgs, endpoints |-> Absent,
     endpointRequests |-> 0, parameterRequests |-> 0,
     \* what the call saw and did, kept for the properties
     startedAt |-> 0, seen |-> NoEntry, solo |-> TRUE, after |-> NoEntry,
     fetches |-> 0, getModelsError |-> NoError]

\* setModelsCache has not been called yet.
NoSet == [present |-> FALSE, models |-> <<>>, at |-> 0, installed |-> {}]

\* No tool call has returned yet.
NoneCompleted ==
    [present |-> FALSE, kind |-> "", force |-> FALSE, detail |-> "",
     startedAt |-> 0, finishedAt |-> 0, seen |-> NoEntry,
     cacheAtEnd |-> NoEntry, used |-> NoEntry, solo |-> TRUE,
     after |-> NoEntry, fetches |-> 0, getModelsError |-> NoError,
     result |-> NoResult, call |-> IdleRequest]

Requests == 1..MaxInFlight

\* ------------------------------------------------------------------------
\* The synchronous pipeline on a fixed catalog: the filter callback on each
\* model in turn, then a request skeleton for each survivor.

TaskSpecsOf(v) ==
    {[hard_constraints |-> parseHardConstraints(v, c),
      soft_constraints |-> sc, preferences |-> p] :
        c \in ConstraintsOf(v), sc \in SoftConstraintsOf(v),
        p \in PreferencesOf(v)}

\* The ranking step has not run.
NotRanked == [done |-> FALSE, entries |-> <<>>]

\* The server process before it is started.
ProcessIdle ==
    /\ booted = FALSE
    /\ modelsCache = NoEntry
    /\ embeddingsCache = NoEmbeddings
    /\ pendingWrites = {}
    /\ pendingEmbWrites = {}
    /\ unhandled = FALSE
    /\ req = [r \in Requests |-> IdleRequest]
    /\ lastSet = NoSet
    /\ completed = NoneCompleted
    /\ previous = NoEntry

PureInit ==
    /\ apiKey = UndefinedStr
    /\ disk = EmptyDisk
    /\ callsLeft = 0
    /\ agenda = {}
    /\ variant \in Variants
    /\ now = 0
    /\ allModels \in Catalogs
    /\ taskSpec \in TaskSpecsOf(variant)
    /\ cursor = 1
    /\ exclusionReasons = EmptyMap
    /\ filtered = <<>>
    /\ skeletons = <<>>
    /\ sorted = NotRanked
    /\ ProcessIdle

FilterFinished == cursor > Len(allModels)

FilterStep ==
    /\ ~FilterFinished
    /\ LET r == hardFilterStep(variant, allModels[cursor],
                               taskSpec.hard_constraints, exclusionReasons, now)
       IN  /\ exclusionReasons' = r.exclusionReasons
           /\ filtered' = IF r.pass THEN Append(filtered, allModels[cursor])
                          ELSE filtered
    /\ cursor' = cursor + 1
    /\ UNCHANGED <<variant, now, allModels, taskSpec, skeletons, sorted,
                   procVars>>

\* The ranking step on the survivors; in the variants with a semantic score
\* each survivor has been given one.
RankStep ==
    /\ FilterFinished
    /\ ~sorted.done
    /\ \E semantic \in [{m.id : m \in Range(filtered)} ->
                            IF variant = "ordinal" THEN {0}
                            ELSE SemanticScores] :
          sorted' = [done |-> TRUE,
                     entries |-> rank(variant, filtered, taskSpec, semantic,
                                      now)]
    /\ UNCHANGED <<variant, now, allModels, taskSpec, cursor,
                   exclusionReasons, filtered, skeletons, procVars>>

SkeletonStep ==
    /\ sorted.done
    /\ Len(skeletons) < Len(filtered)
    /\ skeletons' = Append(skeletons,
            generateSkeleton(filtered[Len(skeletons) + 1], allModels,
                             taskSpec.preferences, requiredParamsOf(taskSpec)))
    /\ UNCHANGED <<variant, now, allModels, taskSpec, cursor,
                   exclusionReasons, filtered, sorted, procVars>>

PureNext == FilterStep \/ RankStep \/ SkeletonStep

PureSpec == PureInit /\ [][PureNext]_vars

\* ------------------------------------------------------------------------
\* The server process: start, clock, disk writes

\* The synchronous pipeline's variables play no part in the server process.
PureIdle ==
    /\ allModels = <<>>
    /\ taskSpec = [hard_constraints |-> NoConstraints,
                   soft_constraints |-> NoSoftConstraints,
                   preferences |-> NoPreferences]
    /\ cursor = 1
    /\ exclusionReasons = EmptyMap
    /\ filtered = <<>>
    /\ skeletons = <<>>
    /\ sorted = NotRanked

\* The catalog entry an earlier run of the server saved: it expires one
\* millisecond after this run's clock starts.
PriorEntry ==
    [present |-> TRUE, data |-> ScenarioCatalog,
     fetched_at |-> toISOString(1 - getCacheTTL),
     expires_at |-> toISOString(1)]

\* The embeddings an earlier run saved, EMBEDDINGS_TTL_MS before this run's
\* clock starts.
PriorEmbeddings ==
    [present |-> TRUE, embeddings |-> (ModelA.id :> embeddingOf("code")),
     fetched_at |-> toISOString(0 - EMBEDDINGS_TTL_MS), model_count |-> 1]

\* CACHE_DIR as earlier runs can have left it: never written; written in
\* full; with a file torn by a failed write; with a file that was never
\* written.
FullDisk ==
    [models |-> [state |-> "ok", content |-> PriorEntry.data],
     meta |-> [state |-> "ok", content |-> metaOf(PriorEntry)],
     embeddings |-> [state |-> "ok",
                     content |-> embeddingsFileOf(PriorEmbeddings)]]

InitialDisks ==
    { EmptyDisk,
      FullDisk,
      [EmptyDisk EXCEPT
          !.models = CorruptFile("models"),
          !.meta = [state |-> "ok", content |-> metaOf(PriorEntry)]],
      [EmptyDisk EXCEPT
          !.models = [state |-> "ok", content |-> PriorEntry.data],
          !.embeddings = CorruptFile("embeddings")] }

\* The runs of the model: without a credential, on each of the initial
\* disks, with MaxCalls tool calls; with a credential, where each call goes
\* on to fetch embeddings, on a disk never written or written in full, with
\* one tool call less.
Runs ==
    {[apiKey |-> UndefinedStr, disk |-> d, calls |-> MaxCalls] :
        d \in InitialDisks}
    \cup
    {[apiKey |-> "sk-or-v1-0123456789", disk |-> d, calls |-> MaxCalls - 1] :
        d \in {d2 \in InitialDisks : d2.models.state = d2.meta.state}}

\* The server as built from the current sources, before it is started.
Init ==
    /\ variant = "description"
    /\ now = 0
    /\ agenda = {"task2model", "sync_catalog"}
    /\ \E run \in Runs :
          /\ apiKey = run.apiKey
          /\ disk = run.disk
          /\ callsLeft = run.calls
    /\ PureIdle
    /\ ProcessIdle

\* Nothing runs between a handler's return and the sending of its response.
Quiet == ~completed.present

Tick ==
    /\ Quiet
    /\ now < MaxTime
    /\ now' = now + 1
    /\ UNCHANGED <<variant, pureVars, procVars>>

\* startServer: await initializeCache(), then connect the transport. Both
\* caches are null when the process starts.
InitializeCache ==
    /\ Quiet
    /\ ~booted
    /\ booted' = TRUE
    /\ modelsCache' = IF ~modelsCache.present
                      THEN loadFromDisk(disk, now) ELSE modelsCache
    /\ embeddingsCache' = IF ~embeddingsCache.present
                          THEN loadEmbeddingsFromDisk(disk, now)
                          ELSE embeddingsCache
    /\ UNCHANGED <<variant, now, pureVars, agenda, apiKey, disk,
                   pendingWrites, pendingEmbWrites, unhandled, req, callsLeft,
                   lastSet, completed, previous>>

\* A writeFile of saveToDisk settles. The promise of saveToDisk rejects on
\* the first failure and the handler given to .catch takes it.
WriteSettles(w, outcome) ==
    /\ Quiet
    /\ w \in pendingWrites
    /\ pendingWrites' = pendingWrites \ {w}
    /\ disk' = IF w.file = "models"
               THEN writeFile(disk, "models", outcome, w.entry.data)
               ELSE writeFile(disk, "meta", outcome, metaOf(w.entry))
    /\ unhandled' = IF outcome = "written" THEN unhandled
                    ELSE onSaveRejected(unhandled)
    /\ UNCHANGED <<variant, now, pureVars, agenda, apiKey, booted,
                   modelsCache, embeddingsCache, pendingEmbWrites, req, callsLeft,
                   lastSet, completed, previous>>

\* saveEmbeddingsToDisk, after its await of ensureCacheDir, serialises the
\* cache object it was given, as the object is by then.
EmbWriteSerialize(w) ==
    /\ Quiet
    /\ w \in pendingEmbWrites
    /\ w.live
    /\ pendingEmbWrites' =
          (pendingEmbWrites \ {w}) \cup {[w EXCEPT !.live = FALSE]}
    /\ UNCHANGED <<variant, now, pureVars, agenda, apiKey, booted,
                   modelsCache, embeddingsCache, disk, pendingWrites,
                   unhandled, req, callsLeft, lastSet, completed, previous>>

\* The writeFile of saveEmbeddingsToDisk settles.
EmbWriteSettles(w, outcome) ==
    /\ Quiet
    /\ w \in pendingEmbWrites
    /\ ~w.live
    /\ pendingEmbWrites' = pendingEmbWrites \ {w}
    /\ disk' = writeFile(disk, "embeddings", outcome,
                          embeddingsFileOf(w.cache))
    /\ unhandled' = IF outcome = "written" THEN unhandled
                    ELSE onSaveRejected(unhandled)
    /\ UNCHANGED <<variant, now, pureVars, agenda, apiKey, booted,
                   modelsCache, embeddingsCache, pendingWrites, req, callsLeft,
                   lastSet, completed, previous>>

\* ------------------------------------------------------------------------
\* The server process: the embeddings cache

\* The pending saves that still hold a reference to the cache object.
liveWrites(pending) == {w \in pending : w.live}

\* clearEmbeddingsCache: the variable is set to null; a pending save keeps
\* the object it was given, which nothing changes any more.
clearEmbeddingsCache(pending) ==
    {[w EXCEPT !.live = FALSE] : w \in pending}

\* {...a, ...b}
spread(a, b) ==
    [k \in DOMAIN a \cup DOMAIN b |-> IF k \in DOMAIN b THEN b[k] ELSE a[k]]

\* addEmbeddings: the cache afterwards. With no cache it is
\* setEmbeddingsCache(newEmbeddings); otherwise the object is changed in
\* place.
addEmbeddings(cache, newEmbeddings, t) ==
    IF ~cache.present
    THEN [present |-> TRUE, embeddings |-> newEmbeddings,
          fetched_at |-> toISOString(t),
          model_count |-> Cardinality(DOMAIN newEmbeddings)]
    ELSE LET merged == spread(cache.embeddings, newEmbeddings)
         IN  [cache EXCEPT !.embeddings = merged,
                           !.model_count = Cardinality(DOMAIN merged)]

\* The saves pending after addEmbeddings: the one it starts, and those that
\* hold the same object and have not serialised it yet.
addEmbeddingsSaves(pending, cacheAfter) ==
    (pending \ liveWrites(pending)) \cup {[live |-> TRUE, cache |-> cacheAfter]}

\* newEmbeddings[batchIds[j]] = result.data[j]
withBatch(newEmbeddings, batchIds, data) ==
    [k \in DOMAIN newEmbeddings \cup Range(batchIds) |->
        IF k \in Range(batchIds)
        THEN data[CHOOSE j \in DOMAIN batchIds :
                    /\ batchIds[j] = k
                    /\ \A j2 \in DOMAIN batchIds : batchIds[j2] = k => j2 <= j]
        ELSE newEmbeddings[k]]

\* ------------------------------------------------------------------------
\* The server process: tool calls

InFlight == {r \in Requests : req[r].pc # "idle"}

\* The slot a call that starts is given: the first free one.
freeSlot(r) ==
    /\ req[r].pc = "idle"
    /\ \A r2 \in Requests : r2 < r => req[r2].pc # "idle"

\* A call that starts: what it sees, and whether it runs alone.
started(kind, spec, force) ==
    [IdleRequest EXCEPT
        !.kind = kind, !.spec = spec, !.force = force,
        !.startedAt = now, !.seen = modelsCache,
        !.embeddingsSeen = embeddingsCache,
        !.solo = (InFlight = {}),
        !.after = IF InFlight = {} THEN previous ELSE NoEntry]

\* The calls in flight when another call starts no longer run alone.
joined ==
    [r \in Requests |-> IF req[r].pc # "idle"
                        THEN [req[r] EXCEPT !.solo = FALSE] ELSE req[r]]

\* The handler returns: the slot is free again.
Return(rq, r, locals, used, result, cacheAtEnd) ==
    \E rec \in {locals} :
       /\ req' = [rq EXCEPT ![r] = IdleRequest]
       /\ completed' =
             [present |-> TRUE, kind |-> rec.kind, force |-> rec.force,
              detail |-> IF rec.kind = "task2model"
                         THEN detailLevelOf(variant, rec.spec) ELSE "",
              startedAt |-> rec.startedAt, finishedAt |-> now,
              seen |-> rec.seen, cacheAtEnd |-> cacheAtEnd, used |-> used,
              solo |-> rec.solo, after |-> rec.after, fetches |-> rec.fetches,
              getModelsError |-> rec.getModelsError, result |-> result,
              call |-> rec]

\* The result of the branch after the gate that finds no snapshot at hand.
noCacheAvailable ==
    [NoResult EXCEPT !.ok = FALSE,
        !.error = networkError("Failed to fetch models and no cache available")]

\* A failed fetch answered with that result in place of the client's error.
failureNoCache(error) == noCacheAvailable

\* { ok: false, error: modelsResult.error }
failure(error) == [NoResult EXCEPT !.ok = FALSE, !.error = error]

\* Math.sqrt(n) in thousandths, to three decimals
sqrtMilli(n) ==
    CASE n = 0 -> 0
      [] n = 1 -> 1000
      [] n = 2 -> 1414
      [] OTHER -> CHOOSE s \in 0..(1000 * (n + 1)) :
                      s * s <= n * 1000000 /\ (s + 1) * (s + 1) > n * 1000000

RECURSIVE dot(_, _, _)
dot(a, b, i) ==
    IF i > Len(a) THEN 0 ELSE a[i] * b[i] + dot(a, b, i + 1)

\* cosineSimilarity, in units of 1/FixedScale, to three decimals
cosineSimilarity(a, b) ==
    IF Len(a) # Len(b) THEN 0
    ELSE LET magnitude == (sqrtMilli(dot(a, a, 1)) * sqrtMilli(dot(b, b, 1)))
                             \div 1000
         IN  IF magnitude = 0 THEN 0
             ELSE ((dot(a, b, 1) * FixedScale) \div magnitude) * 1000

\* getModelEmbedding: embeddingsCache?.embeddings[modelId] || null, null
\* being the empty tuple
getModelEmbedding(cache, modelId) ==
    IF cache.present /\ modelId \in DOMAIN cache.embeddings
    THEN cache.embeddings[modelId] ELSE <<>>

\* The semantic score with a missing vector read as the opposite of the
\* task.
semanticScoreOfMissingIsOpposite(v, taskEmbedding, modelEmbedding) ==
    IF taskEmbedding = <<>> \/ modelEmbedding = <<>> THEN 0 - FixedScale
    ELSE (cosineSimilarity(taskEmbedding, modelEmbedding) + FixedScale) \div 2

\* semanticScore of the scoring step: the variant's default unless both
\* vectors are at hand, then (similarity + 1) / 2.
semanticScoreOf(v, taskEmbedding, modelEmbedding) ==
    IF taskEmbedding = <<>> \/ modelEmbedding = <<>>
    THEN IF v = "description" THEN FixedScale \div 2 ELSE 0
    ELSE (cosineSimilarity(taskEmbedding, modelEmbedding) + FixedScale) \div 2

\* xs.slice(0, n)
slice(xs, n) == SubSeq(xs, 1, Min(n, Len(xs)))

\* requiredParams.every(p => (ep.supported_parameters || []).includes(p)),
\* true without required parameters
supportsRequired(endpoint, requiredParams) ==
    \A i \in DOMAIN requiredParams :
        requiredParams[i] \in endpoint.supported_parameters

\* checkEndpoints with a failed fetch passed on to the caller.
checkEndpointsPropagating(v, check, requiredParams, includeEndpoints) ==
    [summary |-> NoSummary, risk |-> "", failed |-> ~check.result.ok]

\* checkEndpoints(modelId, requiredParams, includeEndpoints) once its
\* getEndpoints has settled: the summary, and in the ordinal and the
\* weighted-composite variant the risk. No branch fails the call.
checkEndpoints(v, check, requiredParams, includeEndpoints) ==
    LET summary ==
            [present |-> TRUE, count |-> Len(check.result.data),
             endpoints |-> [k \in DOMAIN check.result.data |->
                 [name |-> check.result.data[k].name,
                  supports_required_params |->
                      supportsRequired(check.result.data[k], requiredParams),
                  context_length |-> check.result.data[k].context_length]]]
        hasRisk == \E k \in DOMAIN summary.endpoints :
                      ~summary.endpoints[k].supports_required_params
        none(risk) == [summary |-> NoSummary,
                       risk |-> IF v = "description" THEN "" ELSE risk,
                       failed |-> FALSE]
    IN  IF ~includeEndpoints
        THEN none(IF v = "ordinal" THEN "endpoints not checked" ELSE "")
        ELSE IF ~check.result.ok THEN none("failed to fetch endpoints")
        ELSE IF Len(check.result.data) = 0 THEN none("no endpoints found")
        ELSE [summary |-> summary,
              risk |-> IF v # "description" /\ hasRisk
                       THEN "endpoint_param_risk" ELSE "",
              failed |-> FALSE]

\* spec.result?.include_endpoints ?? false
includeEndpointsOf(spec) == spec.result.present /\ spec.result.include_endpoints

\* The entries of the shortlist for the detail level: the score (the
\* semantic score or the composite total) at the levels minimal and
\* standard, the endpoint summary and the risks at the level standard.
shortlistOfAsSettled(v, detail, rec) ==
    [k \in DOMAIN rec.shortlisted |->
        LET place == IF \E j \in DOMAIN rec.checks : rec.checks[j].at = k
                     THEN CHOOSE j \in DOMAIN rec.checks :
                             rec.checks[j].at = k
                     ELSE k
            item == rec.shortlisted[place]
            endpointCheck ==
                checkEndpoints(v, IF place \in DOMAIN rec.checks
                                  THEN rec.checks[place] ELSE NoCheck,
                               requiredParamsOf(rec.spec),
                               includeEndpointsOf(rec.spec))
        IN  [model_id |-> item.model.id,
             score |-> CASE detail = "full"   -> Undefined
                         [] v = "description" -> item.score.semantic
                         [] v = "weighted"    -> item.score.total
                         [] v = "ordinal"     -> Undefined,
             endpoints_summary |-> IF detail = "standard"
                                   THEN endpointCheck.summary ELSE NoSummary,
             risks |-> IF detail = "standard" /\ endpointCheck.risk # ""
                       THEN <<endpointCheck.risk>> ELSE <<>>,
             failed |-> detail = "standard" /\ endpointCheck.failed]]

shortlistOf(v, detail, rec) ==
    [k \in DOMAIN rec.shortlisted |->
        LET item == rec.shortlisted[k]
            endpointCheck ==
                checkEndpoints(v, IF k \in DOMAIN rec.checks
                                  THEN rec.checks[k] ELSE NoCheck,
                               requiredParamsOf(rec.spec),
                               includeEndpointsOf(rec.spec))
        IN  [model_id |-> item.model.id,
             score |-> CASE detail = "full"   -> Undefined
                         [] v = "description" -> item.score.semantic
                         [] v = "weighted"    -> item.score.total
                         [] v = "ordinal"     -> Undefined,
             endpoints_summary |-> IF detail = "standard"
                                   THEN endpointCheck.summary ELSE NoSummary,
             risks |-> IF detail = "standard" /\ endpointCheck.risk # ""
                       THEN <<endpointCheck.risk>> ELSE <<>>,
             failed |-> detail = "standard" /\ endpointCheck.failed]]

\* The result with the catalog report read from the shared modelsCache
\* instead of the local cache of the call.
buildResultFromShared(rec) ==
    [NoResult EXCEPT
        !.ok = TRUE, !.count = Len(rec.shortlisted),
        !.shortlist = shortlistOf(variant, detailLevelOf(variant, rec.spec),
                                  rec),
        !.excluded_summary =
            [present |-> TRUE, total_models |-> Len(modelsCache.data),
             after_hard_filter |-> Len(rec.filtered),
             excluded_by |-> rec.exclusionReasons],
        !.catalog =
            [present |-> TRUE, fetched_at |-> modelsCache.fetched_at,
             cache_age_ms |-> now - getTime(modelsCache.fetched_at),
             source |-> rec.source, auth_used |-> hasApiKey(apiKey)]]

\* Step 8 of task2model: the result for the detail level asked for. The
\* names_only result holds the ids, their count and the price range. An
\* endpoint check that fails the call makes its error the outcome.
buildResult(rec) ==
    LET detail == detailLevelOf(variant, rec.spec)
        count == Len(rec.shortlisted)
        cacheStatus == getCacheStatus(rec.cache, rec.source, now)
        shortlist == shortlistOf(variant, detail, rec)
        failures == {k \in DOMAIN shortlist : shortlist[k].failed}
    IN  IF failures # {}
        THEN [NoResult EXCEPT
                !.error = rec.checks[CHOOSE k \in failures :
                             \A j \in failures : k <= j].result.error]
        ELSE IF detail = "names_only"
        THEN [NoResult EXCEPT
                !.ok = TRUE, !.count = count,
                !.models = [k \in DOMAIN rec.shortlisted |->
                               rec.shortlisted[k].model.id]]
        ELSE [ok |-> TRUE, error |-> NoError, details |-> NoDetails,
              count |-> count, models |-> <<>>,
              shortlist |-> [k \in DOMAIN shortlist |->
                  [model_id |-> shortlist[k].model_id,
                   score |-> shortlist[k].score,
                   endpoints_summary |-> shortlist[k].endpoints_summary,
                   risks |-> shortlist[k].risks]],
              model |-> Absent, endpoints |-> Absent, parameters |-> Absent,
              excluded_summary |->
                 [present |-> TRUE, total_models |-> Len(rec.cache.data),
                  after_hard_filter |-> Len(rec.filtered),
                  excluded_by |-> rec.exclusionReasons],
              catalog |->
                 [present |-> TRUE, fetched_at |-> cacheStatus.fetched_at,
                  cache_age_ms |-> cacheStatus.cache_age_ms,
                  source |-> cacheStatus.source,
                  auth_used |-> hasApiKey(apiKey)],
              embeddings |-> IF variant = "description"
                             THEN rec.embeddingStatus ELSE NoEmbeddingStatus]

\* SyncCatalogResult
syncResult(entry, source, auth_used) ==
    [NoResult EXCEPT
        !.ok = TRUE, !.count = Len(entry.data),
        !.catalog = [present |-> TRUE, fetched_at |-> entry.fetched_at,
                     cache_age_ms |-> Undefined, source |-> source,
                     auth_used |-> auth_used]]

\* Whether the variant computes embeddings for this call.
embeddingsEnabled ==
    CASE variant = "description" -> getApiKeyStatus(apiKey)
      [] variant = "weighted"    -> hasApiKey(apiKey)
      [] variant = "ordinal"     -> FALSE

\* Whether the standard branch awaits a getEndpoints call per shortlisted
\* model.
awaitsEndpoints(rec) ==
    /\ detailLevelOf(variant, rec.spec) = "standard"
    /\ includeEndpointsOf(rec.spec)
    /\ Len(rec.shortlisted) > 0

\* task2model from the scoring step to its next await, or to its return
\* when there is none: the semantic score of each survivor from the task
\* vector and the vector the embeddings cache holds for it, the ranking,
\* slice(0, limit), and at the detail level standard with include_endpoints
\* the getEndpoints calls of Promise.all, all issued at once.
Finish(rq, r, locals, cache, cacheAtEnd) ==
    \E rec0 \in {locals} :
    \E semantic \in {[id \in {m.id : m \in Range(rec0.filtered)} |->
                         semanticScoreOf(variant, rec0.taskEmbedding,
                                         getModelEmbedding(cache, id))]} :
    \E scored \in {rank(variant, rec0.filtered, rec0.spec, semantic, now)} :
    \E rec \in {[rec0 EXCEPT
                    !.scoredWith = cache,
                    !.shortlisted = slice(scored,
                                          limitOf(variant, rec0.spec))]} :
        IF awaitsEndpoints(rec)
        THEN /\ req' = [rq EXCEPT ![r] =
                          [rec EXCEPT
                             !.pc = "endpoints",
                             !.checks = [k \in DOMAIN rec.shortlisted |->
                                            NoCheck],
                             !.endpointRequests = Len(rec.shortlisted)]]
             /\ completed' = completed
        ELSE \E result \in {buildResult(rec)} :
                Return(rq, r, rec, rec.cache, result, cacheAtEnd)

\* await getEmbeddings([spec.task]) is issued.
awaitTaskEmbedding(rec) == [rec EXCEPT !.pc = "taskEmb"]

\* task2model from the hard filter to its first await, or to its return
\* when there is none: the filter, clearEmbeddingsCache in the
\* description-similarity variant, the synchronous head of
\* ensureEmbeddings.
AfterGate(rq, r, locals, cacheAtEnd) ==
    IF ~locals.cache.present
    THEN /\ Return(rq, r, locals, NoEntry, noCacheAvailable, cacheAtEnd)
         /\ UNCHANGED <<embeddingsCache, pendingEmbWrites>>
    ELSE
    \E rec0 \in {locals} :
    \E hf \in {hardFilter(variant, rec0.cache.data,
                          rec0.spec.hard_constraints, now)} :
    \E cache \in {IF variant = "description" THEN NoEmbeddings
                   ELSE embeddingsCache} :
    \E rec \in {[rec0 EXCEPT
                    !.filtered = hf.filtered,
                    !.exclusionReasons = hf.exclusionReasons,
                    !.embeddingStatus =
                        [NoEmbeddingStatus EXCEPT
                            !.enabled = embeddingsEnabled]]} :
    \E modelIds \in {[j \in DOMAIN rec.filtered |-> rec.filtered[j].id]} :
    \E missingIds \in {FilterSeq(modelIds,
                           Range(modelIds) \ DOMAIN cache.embeddings)} :
    LET cleared == variant = "description"
        pending == IF cleared THEN clearEmbeddingsCache(pendingEmbWrites)
                   ELSE pendingEmbWrites
        alreadyCached == Len(modelIds) - Len(missingIds)
    IN  /\ embeddingsCache' = cache
        /\ pendingEmbWrites' = pending
        /\ IF ~embeddingsEnabled
           THEN Finish(rq, r, rec, cache, cacheAtEnd)
           ELSE /\ completed' = completed
                /\ IF Len(missingIds) = 0
                   THEN req' = [rq EXCEPT ![r] = awaitTaskEmbedding(
                           [rec EXCEPT !.embeddingStatus.models_embedded =
                                           alreadyCached])]
                   ELSE req' = [rq EXCEPT ![r] =
                           [rec EXCEPT !.pc = "modelEmb",
                                       !.missingIds = missingIds,
                                       !.alreadyCached = alreadyCached,
                                       !.i = 1]]

\* The arguments get_model_profile is called with: a model of no catalog,
\* a model of the provider's catalog, a model of a catalog saved earlier.
ProfileArgs ==
    { [model_id |-> <<"nobody", "/", "none">>, include_endpoints |-> TRUE,
       include_parameters |-> TRUE],
      [model_id |-> ModelA.id, include_endpoints |-> TRUE,
       include_parameters |-> TRUE],
      [model_id |-> ModelC.id, include_endpoints |-> FALSE,
       include_parameters |-> TRUE],
      [model_id |-> ModelF.id, include_endpoints |-> FALSE,
       include_parameters |-> FALSE] }

\* The INVALID_INPUT error of get_model_profile and its details.
modelNotFound(modelId) ==
    [NoResult EXCEPT
        !.error = createError("INVALID_INPUT", "Model not found"),
        !.details = [present |-> TRUE, model_id |-> modelId]]

\* The handler that asks the provider before it looks the model up.
ProfileAfterGateFetchingFirst(rq, r, rec, cacheAtEnd) ==
    /\ req' = [rq EXCEPT ![r] =
                  [rec EXCEPT !.pc = "profileEndpoints",
                              !.endpointRequests = @ + 1]]
    /\ completed' = completed

\* ModelProfileResult: model, fetched_at, auth_used and the optional
\* endpoints and parameters.
profileResult(rec, parameters) ==
    [NoResult EXCEPT
        !.ok = TRUE,
        !.model = Present(rec.args.model_id),
        !.catalog = [present |-> TRUE, fetched_at |-> rec.cache.fetched_at,
                     cache_age_ms |-> Undefined, source |-> "",
                     auth_used |-> hasApiKey(apiKey)],
        !.endpoints = rec.endpoints,
        !.parameters = parameters]

\* get_model_profile from cache.data.find to its next await, or to its
\* return when there is none.
ProfileAfterGate(rq, r, rec, cacheAtEnd) ==
    IF \A k \in DOMAIN rec.cache.data :
          rec.cache.data[k].id # rec.args.model_id
    THEN Return(rq, r, rec, rec.cache, modelNotFound(rec.args.model_id),
                cacheAtEnd)
    ELSE IF rec.args.include_endpoints
    THEN /\ req' = [rq EXCEPT ![r] =
                      [rec EXCEPT !.pc = "profileEndpoints",
                                  !.endpointRequests = @ + 1]]
         /\ completed' = completed
    ELSE IF rec.args.include_parameters
    THEN /\ req' = [rq EXCEPT ![r] =
                      [rec EXCEPT !.pc = "profileParameters",
                                  !.parameterRequests = @ + 1]]
         /\ completed' = completed
    ELSE Return(rq, r, rec, rec.cache, profileResult(rec, Absent), cacheAtEnd)

\* The get_model_profile handler up to its first await.
CallGetModelProfile(r, args) ==
    /\ Quiet
    /\ booted
    /\ freeSlot(r)
    /\ callsLeft > 0
    /\ "get_model_profile" \in agenda
    /\ callsLeft' = callsLeft - 1
    /\ LET rec == [started("get_model_profile", NoSpec, FALSE) EXCEPT
                      !.cache = modelsCache, !.args = args]
       IN  IF ~isCacheValid(modelsCache, now)
           THEN /\ req' = [joined EXCEPT ![r] =
                              [rec EXCEPT !.pc = "getModels", !.fetches = 1]]
                /\ UNCHANGED completed
           ELSE ProfileAfterGate(joined, r, rec, modelsCache)
    /\ UNCHANGED <<variant, now, pureVars, agenda, apiKey, booted,
                   modelsCache, embeddingsCache, disk, pendingWrites,
                   pendingEmbWrites, unhandled, lastSet, previous>>

\* await getEndpoints(args.model_id) resumes the handler: a failure leaves
\* the profile without endpoints.
ProfileEndpointsReturn(r, result) ==
    /\ Quiet
    /\ req[r].pc = "profileEndpoints"
    /\ LET rec == [req[r] EXCEPT
                      !.pc = "idle",
                      !.checks = <<[settled |-> TRUE, result |-> result,
                                    at |-> 1]>>,
                      !.endpoints = IF result.ok THEN Present(result.data)
                                    ELSE Absent]
       IN  IF rec.args.include_parameters
           THEN /\ req' = [req EXCEPT ![r] =
                             [rec EXCEPT !.pc = "profileParameters",
                                         !.parameterRequests = @ + 1]]
                /\ completed' = completed
           ELSE Return(req, r, rec, rec.cache, profileResult(rec, Absent),
                       modelsCache)
    /\ UNCHANGED <<variant, now, pureVars, agenda, apiKey, booted,
                   modelsCache, embeddingsCache, disk, pendingWrites,
                   pendingEmbWrites, unhandled, callsLeft, lastSet, previous>>

\* await getParameters(args.model_id) resumes the handler, which returns.
ProfileParametersReturn(r, result) ==
    /\ Quiet
    /\ req[r].pc = "profileParameters"
    /\ LET rec == [req[r] EXCEPT
                      !.pc = "idle",
                      !.checks = @ \o <<[settled |-> TRUE,
                                          result |-> result,
                                          at |-> Len(@) + 1]>>]
       IN  Return(req, r, rec, rec.cache,
                  profileResult(rec, IF result.ok THEN Present(result.data)
                                     ELSE Absent),
                  modelsCache)
    /\ UNCHANGED <<variant, now, pureVars, agenda, apiKey, booted,
                   modelsCache, embeddingsCache, disk, pendingWrites,
                   pendingEmbWrites, unhandled, callsLeft, lastSet, previous>>

\* The await getEndpoints(model.id) of the k-th callback of Promise.all
\* resumes it; when the last one has, task2model runs to its return.
EndpointCheckReturns(r, k, result) ==
    /\ Quiet
    /\ req[r].pc = "endpoints"
    /\ k \in DOMAIN req[r].checks
    /\ ~req[r].checks[k].settled
    /\ LET rec == [req[r] EXCEPT
                      !.checks[k] =
                         [settled |-> TRUE, result |-> result,
                          at |-> 1 + Cardinality(
                                    {j \in DOMAIN req[r].checks :
                                        req[r].checks[j].settled})]]
       IN  IF \A j \in DOMAIN rec.checks : rec.checks[j].settled
           THEN Return(req, r, rec, rec.cache, buildResult(rec), modelsCache)
           ELSE /\ req' = [req EXCEPT ![r] = rec]
                /\ completed' = completed
    /\ UNCHANGED <<variant, now, pureVars, agenda, apiKey, booted,
                   modelsCache, embeddingsCache, disk, pendingWrites,
                   pendingEmbWrites, unhandled, callsLeft, lastSet, previous>>

\* Whether the freshness gate of a call sends it to the provider.
\* A gate that goes to the provider only when the call forces it.
needsRefreshOnlyForced(cache, forceRefresh, t) == forceRefresh

needsRefresh(cache, forceRefresh, t) ==
    ~isCacheValid(cache, t) \/ forceRefresh

\* task2model(spec) up to its first await.
CallTask2Model(r, spec) ==
    /\ Quiet
    /\ booted
    /\ freeSlot(r)
    /\ callsLeft > 0
    /\ "task2model" \in agenda
    /\ callsLeft' = callsLeft - 1
    /\ LET forceRefresh == spec.result.present /\ spec.result.force_refresh
           rec == [started("task2model", spec, forceRefresh) EXCEPT
                      !.cache = modelsCache, !.source = "cache"]
       IN  IF needsRefresh(modelsCache, forceRefresh, now)
           THEN /\ req' = [joined EXCEPT ![r] =
                              [rec EXCEPT !.pc = "getModels", !.fetches = 1]]
                /\ UNCHANGED <<embeddingsCache, pendingEmbWrites, completed>>
           ELSE AfterGate(joined, r, rec, modelsCache)
    /\ UNCHANGED <<variant, now, pureVars, agenda, apiKey, booted,
                   modelsCache, disk, pendingWrites, unhandled, lastSet, previous>>

\* The sync_catalog handler up to its first await.
CallSyncCatalog(r, force) ==
    /\ Quiet
    /\ booted
    /\ freeSlot(r)
    /\ callsLeft > 0
    /\ "sync_catalog" \in agenda
    /\ callsLeft' = callsLeft - 1
    /\ LET rec == [started("sync_catalog", NoSpec, force) EXCEPT
                      !.cache = modelsCache]
       IN  IF ~force /\ isCacheValid(modelsCache, now)
           THEN Return(joined, r, rec, modelsCache,
                       syncResult(modelsCache, "cache", hasApiKey(apiKey)),
                       modelsCache)
           ELSE /\ req' = [joined EXCEPT ![r] =
                              [rec EXCEPT !.pc = "getModels", !.fetches = 1]]
                /\ UNCHANGED completed
    /\ UNCHANGED <<variant, now, pureVars, agenda, apiKey, booted,
                   modelsCache, embeddingsCache, disk, pendingWrites,
                   pendingEmbWrites, unhandled, lastSet, previous>>

\* await getModels() resumes the handler with the client's result.
GetModelsReturns(r, result) ==
    /\ Quiet
    /\ req[r].pc = "getModels"
    /\ LET rec == [req[r] EXCEPT !.getModelsError = result.error]
       IN  IF ~result.ok
           THEN /\ Return(req, r, rec, NoEntry, failure(result.error),
                          modelsCache)
                /\ UNCHANGED <<modelsCache, lastSet, pendingWrites,
                               embeddingsCache, pendingEmbWrites>>
           ELSE LET entry == setModelsCache(result.data, now, modelsCache)
                IN  /\ modelsCache' = entry
                    /\ lastSet' = [present |-> TRUE, models |-> result.data,
                                   at |-> now,
                                   installed |->
                                       lastSet.installed \cup {entry}]
                    /\ pendingWrites' = pendingWrites \cup saveToDisk(entry)
                    /\ IF rec.kind = "sync_catalog"
                       THEN /\ Return(req, r, rec, entry,
                                      syncResult(entry, "live",
                                                 hasApiKey(apiKey)),
                                      entry)
                            /\ UNCHANGED <<embeddingsCache, pendingEmbWrites>>
                       ELSE IF rec.kind = "get_model_profile"
                       THEN /\ ProfileAfterGate(req, r,
                                   [rec EXCEPT !.pc = "idle",
                                               !.cache = entry],
                                   entry)
                            /\ UNCHANGED <<embeddingsCache, pendingEmbWrites>>
                       ELSE AfterGate(req, r,
                                      [rec EXCEPT !.pc = "idle",
                                                  !.cache = entry,
                                                  !.source = "live"],
                                      entry)
    /\ UNCHANGED <<variant, now, pureVars, agenda, apiKey, booted, disk,
                   unhandled, callsLeft, previous>>

\* batchIds = missingIds.slice(i, i + BATCH_SIZE), counted from 1
batchIdsOf(rec) ==
    SubSeq(rec.missingIds, rec.i,
           Min(rec.i + BATCH_SIZE - 1, Len(rec.missingIds)))

\* batchTexts = texts.slice(i, i + BATCH_SIZE), texts being the embedding
\* texts of the models whose ids are missing, in catalog order
batchTextsOf(rec) ==
    LET missingModels ==
            FilterSeq(rec.filtered,
                      {m \in Range(rec.filtered) : m.id \in Range(rec.missingIds)})
        texts == [j \in DOMAIN missingModels |->
                     buildEmbeddingText(missingModels[j])]
    IN  SubSeq(texts, rec.i, Min(rec.i + BATCH_SIZE - 1, Len(texts)))

\* await getEmbeddings(batchTexts) resumes ensureEmbeddings with the
\* client's result; after the last batch ensureEmbeddings returns and
\* task2model asks for the embedding of the task.
ModelEmbeddingsReturn(r, result) ==
    /\ Quiet
    /\ req[r].pc = "modelEmb"
    /\ LET rec == req[r]
           newEmbeddings == IF result.ok
                            THEN withBatch(rec.newEmbeddings, batchIdsOf(rec),
                                           result.data)
                            ELSE rec.newEmbeddings
           fetchError == IF result.ok THEN rec.fetchError
                         ELSE result.error.message
           \* the weighted-composite variant returns on the first failure
           gaveUp == variant = "weighted" /\ ~result.ok
           last == rec.i + BATCH_SIZE > Len(rec.missingIds)
           newCount == Cardinality(DOMAIN newEmbeddings)
           adds == /\ ~gaveUp
                   /\ (variant = "description" => newCount > 0)
           cacheAfter == addEmbeddings(embeddingsCache, newEmbeddings, now)
       IN  IF ~last /\ ~gaveUp
           THEN /\ req' = [req EXCEPT ![r] =
                              [rec EXCEPT !.i = rec.i + BATCH_SIZE,
                                          !.newEmbeddings = newEmbeddings,
                                          !.fetchError = fetchError]]
                /\ UNCHANGED <<embeddingsCache, pendingEmbWrites>>
           ELSE /\ embeddingsCache' = IF adds THEN cacheAfter
                                      ELSE embeddingsCache
                /\ pendingEmbWrites' =
                      IF adds
                      THEN addEmbeddingsSaves(pendingEmbWrites, cacheAfter)
                      ELSE pendingEmbWrites
                /\ req' = [req EXCEPT ![r] = awaitTaskEmbedding(
                      [rec EXCEPT
                         !.newEmbeddings = newEmbeddings,
                         !.fetchError = fetchError,
                         !.embeddingStatus.models_embedded =
                             rec.alreadyCached + newCount,
                         !.embeddingStatus.models_failed =
                             Len(rec.missingIds) - newCount,
                         !.embeddingStatus.error = fetchError])]
    /\ UNCHANGED <<variant, now, pureVars, agenda, apiKey, booted,
                   modelsCache, disk, pendingWrites, unhandled, callsLeft,
                   lastSet, completed, previous>>

\* await getEmbeddings([spec.task]) resumes task2model, which runs to its
\* return.
TaskEmbeddingReturns(r, result) ==
    /\ Quiet
    /\ req[r].pc = "taskEmb"
    /\ LET embedded == result.ok /\ Len(result.data) > 0
           rec == [req[r] EXCEPT
                      !.taskEmbedding = IF embedded THEN result.data[1]
                                        ELSE <<>>,
                      !.embeddingStatus.task_embedded = embedded,
                      !.embeddingStatus.error =
                          IF result.ok THEN @ ELSE result.error.message]
       IN  Finish(req, r, rec, embeddingsCache, modelsCache)
    /\ UNCHANGED <<variant, now, pureVars, agenda, apiKey, booted,
                   modelsCache, embeddingsCache, disk, pendingWrites,
                   pendingEmbWrites, unhandled, callsLeft, lastSet, previous>>

\* The handler's return value is sent as the response of the tool call.
SendResponse ==
    /\ completed.present
    /\ completed' = NoneCompleted
    /\ previous' = IF completed.solo THEN completed.used ELSE NoEntry
    /\ UNCHANGED <<variant, now, pureVars, agenda, apiKey, booted, modelsCache,
                   embeddingsCache, disk, pendingWrites, pendingEmbWrites,
                   unhandled, req, callsLeft, lastSet>>

Next ==
    \/ Tick
    \/ SendResponse
    \/ InitializeCache
    \/ \E r \in Requests, spec \in ToolSpecs(variant) : CallTask2Model(r, spec)
    \/ \E r \in Requests, force \in BOOLEAN : CallSyncCatalog(r, force)
    \/ \E r \in Requests, result \in GetModelsResults :
          GetModelsReturns(r, result)
    \/ \E r \in {x \in Requests : req[x].pc = "modelEmb"} :
          \E result \in GetEmbeddingsResults(batchTextsOf(req[r])) :
             ModelEmbeddingsReturn(r, result)
    \/ \E r \in Requests :
          \E result \in GetTaskEmbeddingResults(req[r].spec.task) :
             TaskEmbeddingReturns(r, result)
    \/ \E w \in pendingWrites, outcome \in WriteOutcomes :
          WriteSettles(w, outcome)
    \/ \E w \in pendingEmbWrites : EmbWriteSerialize(w)
    \/ \E w \in pendingEmbWrites, outcome \in WriteOutcomes :
          EmbWriteSettles(w, outcome)

Spec == Init /\ [][Next]_vars

\* ------------------------------------------------------------------------
\* The server process with each variant of the recommender: the endpoint
\* checks of the standard detail level

\* The task specifications of these runs: the standard detail level with
\* the endpoints of at most two models, with and without required
\* parameters.
EndpointSpecs(v) ==
    { [task |-> "code",
       hard_constraints |-> parseHardConstraints(v, c),
       soft_constraints |-> NoSoftConstraints,
       preferences |-> NoPreferences,
       result |-> [NoResultConfig EXCEPT !.present = TRUE,
                                         !.detail = "standard",
                                         !.include_endpoints = TRUE,
                                         !.limit = 2]] :
        c \in {NoConstraints, ScenarioConstraints} }

\* The runs: each variant, without a credential, on a disk never written
\* or written in full.
EndpointRuns ==
    {[variant |-> v, apiKey |-> UndefinedStr, disk |-> d,
      calls |-> MaxCalls - 1, agenda |-> {"task2model"}] :
        v \in Variants, d \in {EmptyDisk, FullDisk}}

\* The server of a run, before it is started.
StartOf(runs) ==
    /\ now = 0
    /\ \E run \in runs :
          /\ variant = run.variant
          /\ apiKey = run.apiKey
          /\ disk = run.disk
          /\ callsLeft = run.calls
          /\ agenda = run.agenda
    /\ PureIdle
    /\ ProcessIdle

EndpointsInit == StartOf(EndpointRuns)

EndpointsNext ==
    \/ Tick
    \/ SendResponse
    \/ InitializeCache
    \/ \E r \in Requests, spec \in EndpointSpecs(variant) :
          CallTask2Model(r, spec)
    \/ \E r \in Requests, result \in GetModelsResults :
          GetModelsReturns(r, result)
    \/ \E r \in Requests :
          \E k \in DOMAIN req[r].checks, result \in GetEndpointsResults :
             EndpointCheckReturns(r, k, result)
    \/ \E w \in pendingWrites, outcome \in WriteOutcomes :
          WriteSettles(w, outcome)

EndpointsSpec == EndpointsInit /\ [][EndpointsNext]_vars

\* ------------------------------------------------------------------------
\* The server process with the variants that score by embeddings

\* The task specification of these runs: the defaults of the variant.
EmbeddingSpecs(v) ==
    { [task |-> "code",
       hard_constraints |-> parseHardConstraints(v, NoConstraints),
       soft_constraints |-> NoSoftConstraints,
       preferences |-> NoPreferences,
       result |-> NoResultConfig] }

\* The runs: the description-similarity and the weighted-composite
\* variant, with and without a credential, on a disk never written or
\* written in full.
EmbeddingRuns ==
    {[variant |-> v, apiKey |-> k, disk |-> d, calls |-> MaxCalls - 1,
      agenda |-> {"task2model"}] :
        v \in {"description", "weighted"}, k \in ApiKeys,
        d \in {EmptyDisk, FullDisk}}

EmbeddingsInit == StartOf(EmbeddingRuns)

EmbeddingsNext ==
    \/ Tick
    \/ SendResponse
    \/ InitializeCache
    \/ \E r \in Requests, spec \in EmbeddingSpecs(variant) :
          CallTask2Model(r, spec)
    \/ \E r \in Requests, result \in GetModelsResults :
          GetModelsReturns(r, result)
    \/ \E r \in {x \in Requests : req[x].pc = "modelEmb"} :
          \E result \in GetEmbeddingsResults(batchTextsOf(req[r])) :
             ModelEmbeddingsReturn(r, result)
    \/ \E r \in Requests :
          \E result \in GetTaskEmbeddingResults(req[r].spec.task) :
             TaskEmbeddingReturns(r, result)
    \/ \E w \in pendingWrites, outcome \in WriteOutcomes :
          WriteSettles(w, outcome)
    \/ \E w \in pendingEmbWrites : EmbWriteSerialize(w)
    \/ \E w \in pendingEmbWrites, outcome \in WriteOutcomes :
          EmbWriteSettles(w, outcome)

EmbeddingsSpec == EmbeddingsInit /\ [][EmbeddingsNext]_vars

\* ------------------------------------------------------------------------
\* The server process with two task2model calls that fetch embeddings

\* The task specification of these runs: the detail level minimal.
InterleavedSpecs(v) ==
    { [task |-> "code",
       hard_constraints |-> parseHardConstraints(v, NoConstraints),
       soft_constraints |-> NoSoftConstraints,
       preferences |-> NoPreferences,
       result |-> [NoResultConfig EXCEPT !.present = TRUE,
                                         !.detail = "minimal"]] }

\* What GET /models answers with in these runs: the catalog changes
\* between two requests.
InterleavedCatalogs == {<<ModelA, ModelF>>, <<ModelC>>}

\* The runs: the description-similarity variant with a credential, on a
\* disk never written, with MaxCalls calls.
InterleavedRuns ==
    {[variant |-> "description", apiKey |-> "sk-or-v1-0123456789",
      disk |-> EmptyDisk, calls |-> MaxCalls, agenda |-> {"task2model"}]}

InterleavedInit == StartOf(InterleavedRuns)

InterleavedNext ==
    \/ (now < MaxInterleavedTime /\ Tick)
    \/ SendResponse
    \/ InitializeCache
    \/ \E r \in Requests, spec \in InterleavedSpecs(variant) :
          CallTask2Model(r, spec)
    \/ \E r \in Requests, c \in InterleavedCatalogs :
          GetModelsReturns(r, getModels(apiKey, Response(200, c)))
    \/ \E r \in {x \in Requests : req[x].pc = "modelEmb"} :
          \E result \in GetEmbeddingsResults(batchTextsOf(req[r])) :
             ModelEmbeddingsReturn(r, result)
    \/ \E r \in Requests :
          \E result \in GetTaskEmbeddingResults(req[r].spec.task) :
             TaskEmbeddingReturns(r, result)
    \/ \E w \in pendingWrites : WriteSettles(w, "written")
    \/ \E w \in pendingEmbWrites : EmbWriteSerialize(w)
    \/ \E w \in pendingEmbWrites : EmbWriteSettles(w, "written")

InterleavedSpec == InterleavedInit /\ [][InterleavedNext]_vars

\* ------------------------------------------------------------------------
\* The server process with get_model_profile

\* Values of OPENROUTER_API_KEY that getApiKey takes for no key, and a key.
ProfileKeys == ApiKeys \cup {"sk-or-...", "sk-or-1"}

\* The runs: each value of the credential, on a disk never written or
\* written in full.
ProfileRuns ==
    {[variant |-> "description", apiKey |-> k, disk |-> d,
      calls |-> MaxCalls - 1, agenda |-> {"get_model_profile"}] :
        k \in ProfileKeys, d \in {EmptyDisk, FullDisk}}

ProfileInit == StartOf(ProfileRuns)

ProfileNext ==
    \/ Tick
    \/ SendResponse
    \/ InitializeCache
    \/ \E r \in Requests, args \in ProfileArgs : CallGetModelProfile(r, args)
    \/ \E r \in Requests, result \in GetModelsResults :
          GetModelsReturns(r, result)
    \/ \E r \in Requests, result \in GetEndpointsResults :
          ProfileEndpointsReturn(r, result)
    \/ \E r \in Requests, result \in GetParametersResults :
          ProfileParametersReturn(r, result)
    \/ \E w \in pendingWrites, outcome \in WriteOutcomes :
          WriteSettles(w, outcome)

ProfileSpec == ProfileInit /\ [][ProfileNext]_vars

\* ------------------------------------------------------------------------
\* Properties of the hard filter and of the request skeleton (PureSpec)

\* Map.get(tag) || 0
countOf(tally, tag) == IF tag \in DOMAIN tally THEN tally[tag] ELSE 0

RECURSIVE SumOver(_, _)
SumOver(tally, tags) ==
    IF tags = {} THEN 0
    ELSE LET tag == CHOOSE x \in tags : TRUE
         IN  tally[tag] + SumOver(tally, tags \ {tag})

\* The sum of all counts in excluded_by.
TallyTotal(tally) == SumOver(tally, DOMAIN tally)

\* C1: once the filter has run over the whole catalog, the counts of the
\* exclusion tally (excluded_by) and the number of survivors
\* (after_hard_filter) add up to the catalog size (total_models), for every
\* catalog, every hard-constraint set and every variant.
C1_TallyPlusSurvivorsIsCatalog ==
    FilterFinished =>
        TallyTotal(exclusionReasons) + Len(filtered) = Len(allModels)

\* A catalog of which the filter kept one model and dropped another.
C1_Witness ==
    /\ FilterFinished
    /\ Len(filtered) >= 1
    /\ TallyTotal(exclusionReasons) >= 1

\* The order of the clauses of the description-similarity variant.
DescriptionOrder ==
    << "too_old", "missing_required_parameters", "input_modality_mismatch",
       "output_modality_mismatch", "provider_not_allowed", "free_model",
       "too_expensive" >>

\* Whether a model violates the clause of a tag, taken on its own.
violatesClause(tag, model, constraints, t) ==
    CASE tag = "too_old" -> violatesMaxAge(model, constraints, t)
      [] tag = "missing_required_parameters" ->
            constraints.present /\ violatesRequiredParameters(model, constraints)
      [] tag = "input_modality_mismatch" ->
            constraints.present /\ violatesInputModalities(model, constraints)
      [] tag = "output_modality_mismatch" ->
            constraints.present /\ violatesOutputModalities(model, constraints)
      [] tag = "provider_not_allowed" ->
            constraints.present /\ violatesProviders(model, constraints)
      [] tag = "free_model" ->
            constraints.present /\ violatesExcludeFree(model, constraints)
      [] tag = "too_expensive" ->
            constraints.present /\ violatesMaxPricePer1m(model, constraints)

\* The positions in DescriptionOrder of the clauses a model violates.
violatedAt(model, constraints, t) ==
    {i \in DOMAIN DescriptionOrder :
        violatesClause(DescriptionOrder[i], model, constraints, t)}

\* The tag of the earliest violated clause, "none" for a model that passes.
earliestTag(model, constraints, t) ==
    LET at == violatedAt(model, constraints, t)
    IN  IF at = {} THEN "none"
        ELSE DescriptionOrder[CHOOSE i \in at : \A j \in at : i <= j]

\* C2: in the description-similarity variant every model the filter has seen
\* is counted under exactly one tag, that of the earliest clause it violates
\* in the order too_old, missing_required_parameters,
\* input_modality_mismatch, output_modality_mismatch, provider_not_allowed,
\* free_model, too_expensive: each tag's count is the number of models seen
\* whose earliest violated clause it is, so no later clause is counted.
C2_FirstViolatedClauseCounts ==
    variant = "description" =>
        /\ DOMAIN exclusionReasons \subseteq Range(DescriptionOrder)
        /\ \A tag \in Range(DescriptionOrder) :
              countOf(exclusionReasons, tag) =
                Cardinality({j \in 1..(cursor - 1) :
                    earliestTag(allModels[j], taskSpec.hard_constraints, now)
                        = tag})

\* The filter has seen a model that violates at least two clauses.
C2_Witness ==
    /\ variant = "description"
    /\ \E j \in 1..(cursor - 1) :
          Cardinality(violatedAt(allModels[j], taskSpec.hard_constraints, now)) >= 2

\* The worked scenario: catalog A, B, C under
\* {required_parameters: ["tools"], exclude_free: true}.
ScenarioRun ==
    /\ allModels = ScenarioCatalog
    /\ taskSpec.hard_constraints = parseHardConstraints(variant, ScenarioConstraints)
    /\ FilterFinished

\* C3 as stated: the scenario yields survivors {A} and the tally
\* {missing_required_parameters: 1, free_model: 1}.
C3_ScenarioAsStated ==
    ScenarioRun =>
        /\ filtered = <<ModelA>>
        /\ exclusionReasons =
              ("missing_required_parameters" :> 1 @@ "free_model" :> 1)

\* C3, amended: the scenario yields survivors {A} in every variant; the
\* tally is {missing_required_parameters: 1, free_model: 1} in the ordinal
\* and the weighted-composite variants, and {too_old: 1, free_model: 1} in
\* the description-similarity variant, where B (400 days old) is past the
\* 365-day ceiling, the first clause evaluated.
C3_ScenarioByVariant ==
    ScenarioRun =>
        /\ filtered = <<ModelA>>
        /\ exclusionReasons =
              IF variant = "description"
              THEN ("too_old" :> 1 @@ "free_model" :> 1)
              ELSE ("missing_required_parameters" :> 1 @@ "free_model" :> 1)

C3_Witness == ScenarioRun /\ variant = "description"

\* prefer_exacto_for_tools is true or defaulted, the required parameters
\* hold "tools" or "tool_choice", and the catalog holds "<id>:exacto".
exactoApplies(model) ==
    /\ \/ ~taskSpec.preferences.present
       \/ taskSpec.preferences.prefer_exacto_for_tools \in {"true", UndefinedStr}
    /\ taskSpec.hard_constraints.present
    /\ \E p \in Range(taskSpec.hard_constraints.required_parameters) :
          p \in {"tools", "tool_choice"}
    /\ \E m \in Range(allModels) : m.id = model.id \o <<":", "exacto">>

knownCreated ==
    {i \in 1..(cursor - 1) :
        allModels[i].created # Undefined /\ allModels[i].created # 0}

\* C18: whatever min_age_days is, a model whose creation time is unknown
\* is never counted under too_new: the tally of too_new never exceeds the
\* number of models of known creation time the filter has been through,
\* and a model of unknown creation time that no other clause excludes is
\* among the survivors.
C18_UnknownAgeNeverTooNew ==
    /\ countOf(exclusionReasons, "too_new") <= Cardinality(knownCreated)
    /\ \A i \in 1..(cursor - 1) :
          (/\ variant = "ordinal"
           /\ i \notin knownCreated
           /\ hardFilterStep(variant, allModels[i],
                  [taskSpec.hard_constraints EXCEPT !.min_age_days = Undefined],
                  EmptyMap, now).pass)
          => allModels[i] \in Range(filtered)

\* A minimum age that excludes a model of known age has let one of unknown
\* age through.
C18_Witness ==
    /\ variant = "ordinal"
    /\ taskSpec.hard_constraints.min_age_days = 100000
    /\ countOf(exclusionReasons, "too_new") = 1
    /\ \E i \in 1..(cursor - 1) :
          i \notin knownCreated /\ allModels[i] \in Range(filtered)

\* The sort keys of a model, each turned so that smaller goes first: the
\* coverage, the total price when routing is price, the creation time when
\* prefer_newer holds, the context length.
sortKeys(model) ==
    << 0 - getParamCoverageScore(model, requiredParamsOf(taskSpec)),
       IF routingOf(taskSpec.preferences) = "price"
       THEN getTotalPrice(model) ELSE 0,
       IF preferNewerOf(taskSpec.preferences) /\ model.created # Undefined
       THEN 0 - model.created ELSE 0,
       0 - model.context_length >>

\* ka does not come after kb in the lexicographic order.
lexLeq(ka, kb) ==
    \/ ka = kb
    \/ \E k \in DOMAIN ka :
          /\ ka[k] < kb[k]
          /\ \A j \in 1..(k - 1) : ka[j] = kb[j]

sortedModels == [k \in DOMAIN sorted.entries |-> sorted.entries[k].model]

\* C19: sortModels returns a permutation of the survivors in which every
\* model is followed only by models whose keys (coverage descending, total
\* price ascending when routing is price, creation time descending when
\* prefer_newer holds, context length descending) do not come before its
\* own in the lexicographic order.
C19_SortedLexicographically ==
    (variant = "ordinal" /\ sorted.done)
    => /\ Len(sortedModels) = Len(filtered)
       /\ \A m \in Range(filtered) \cup Range(sortedModels) :
             Cardinality({k \in DOMAIN filtered : filtered[k] = m})
                = Cardinality({k \in DOMAIN sortedModels :
                                  sortedModels[k] = m})
       /\ \A k \in 1..(Len(sortedModels) - 1) :
             lexLeq(sortKeys(sortedModels[k]), sortKeys(sortedModels[k + 1]))

\* The sort has moved a cheaper model of the same coverage in front of a
\* dearer one that came first in the catalog.
C19_Witness ==
    /\ variant = "ordinal" /\ sorted.done
    /\ Len(filtered) >= 2
    /\ sortedModels # filtered
    /\ routingOf(taskSpec.preferences) = "price"
    /\ sortKeys(sortedModels[1])[1] = sortKeys(sortedModels[2])[1]
    /\ getTotalPrice(sortedModels[1]) < getTotalPrice(sortedModels[2])

\* x is a score between 0 and 1.
unitScore(x) == 0 <= x /\ x <= FixedScale

\* The five sub-scores of calculateScore lie between 0 and 1 for every
\* survivor, whatever the task specification.
SubScoresInUnitInterval ==
    (variant = "weighted" /\ sorted.done)
    => \A k \in DOMAIN sorted.entries :
          LET score == sorted.entries[k].score
          IN  /\ unitScore(score.semantic) /\ unitScore(score.price)
              /\ unitScore(score.parameters) /\ unitScore(score.recency)
              /\ unitScore(score.context)

\* C20: each of the five sub-scores of calculateScore and the composite
\* total lie between 0 and 1 for every valid task specification.
C20_ScoresInUnitInterval ==
    /\ SubScoresInUnitInterval
    /\ (variant = "weighted" /\ sorted.done)
       => \A k \in DOMAIN sorted.entries :
             unitScore(sorted.entries[k].score.total)

\* C21: in the description-similarity variant the ranking is descending
\* in the semantic score up to the band of 0.01: no model comes after a
\* model whose semantic score is lower than its own by more than 0.01.
C21_DescendingUpToTolerance ==
    (sorted.done /\ variant = "description") =>
        \A i, j \in DOMAIN sorted.entries :
            i < j => sorted.entries[j].score.semantic
                        - sorted.entries[i].score.semantic
                     <= FixedScale \div 100

\* C26: with a required_parameters constraint active every survivor of the
\* hard filter supports all required parameters, so its coverage ratio is
\* exactly 1: the first key of the ordinal sort is equal on all survivors,
\* the parameter sub-score of the composite is 1 on every survivor, and
\* generateReasons of the weighted-composite variant gives "full param
\* support" and never its fallback.
C26_SurvivorsCoverAllRequired ==
    (sorted.done /\ Len(requiredParamsOf(taskSpec)) > 0) =>
        \A k \in DOMAIN sorted.entries :
            /\ Range(requiredParamsOf(taskSpec))
                  \subseteq sorted.entries[k].model.supported_parameters
            /\ getParamCoverageScore(sorted.entries[k].model,
                                     requiredParamsOf(taskSpec)) = FixedScale
            /\ variant = "ordinal" =>
                  \A j \in DOMAIN sorted.entries :
                      getParamCoverageScore(sorted.entries[j].model,
                                            requiredParamsOf(taskSpec))
                         = getParamCoverageScore(sorted.entries[k].model,
                                                 requiredParamsOf(taskSpec))
            /\ variant = "weighted" =>
                  /\ sorted.entries[k].score.parameters = FixedScale
                  /\ "full param support" \in
                        Range(generateReasons(sorted.entries[k].score,
                                              taskSpec))
                  /\ "score: total" \notin
                        Range(generateReasons(sorted.entries[k].score,
                                              taskSpec))

\* The weighted-composite variant has ranked a survivor whose first reason
\* is its parameter support, its semantic match being low, after the filter
\* excluded a model that lacks a required parameter.
C26_Witness ==
    /\ sorted.done
    /\ variant = "weighted"
    /\ Len(requiredParamsOf(taskSpec)) > 0
    /\ countOf(exclusionReasons, "missing_required_parameters") > 0
    /\ \E k \in DOMAIN sorted.entries :
          generateReasons(sorted.entries[k].score, taskSpec)[1]
             = "full param support"

\* The age ceiling of the task: max_age_days when supplied, else 365 days.
ageCeiling ==
    IF taskSpec.hard_constraints.present
       /\ taskSpec.hard_constraints.max_age_days # Undefined
    THEN taskSpec.hard_constraints.max_age_days ELSE 365

\* The models of the catalog that are older than the ceiling, or whose
\* creation time is unknown or zero.
overAge ==
    {k \in DOMAIN allModels :
        \/ allModels[k].created \in {Undefined, 0}
        \/ EpochSec - allModels[k].created
              >= (ageCeiling + 1) * SecondsPerDay}

\* C29: in the description-similarity variant the age ceiling is applied
\* to every model even when no hard_constraints object is supplied (365
\* days), and a model whose creation time is unknown or zero has infinite
\* age and is excluded with tag too_old for every finite max_age_days.
C29_AgeCeilingAlwaysApplies ==
    (variant = "description" /\ FilterFinished) =>
        /\ ageCeiling < Infinity
        /\ countOf(exclusionReasons, "too_old") = Cardinality(overAge)
        /\ \A k \in DOMAIN filtered :
              /\ filtered[k].created \notin {Undefined, 0}
              /\ getModelAgeDays(filtered[k], now) <= ageCeiling
        /\ \A k \in overAge :
              allModels[k] \notin Range(filtered)

\* The filter ran without a hard_constraints object on a catalog with a
\* model of unknown creation time: it was excluded as too old and another
\* model passed.
C29_Witness ==
    /\ variant = "description"
    /\ FilterFinished
    /\ ~taskSpec.hard_constraints.present
    /\ \E k \in DOMAIN allModels : allModels[k].created = Undefined
    /\ countOf(exclusionReasons, "too_old") = 1
    /\ Len(filtered) = 1

\* The evaluator of the variant excludes the model with tag free_model.
excludedAsFree(model) ==
    countOf(hardFilterStep(variant, model, taskSpec.hard_constraints,
                           EmptyMap, now).exclusionReasons,
            "free_model") = 1

\* C30: the free-model clause and the price clauses agree on a missing or
\* empty price: a model is excluded with tag free_model only when
\* exclude_free is set and both its prompt price and its completion price
\* are known and equal to 0; a model whose prompt or completion price
\* string is missing or empty, which the price clause reads as infinite,
\* is not classified as free.
C30_FreeOnlyWithKnownZeroPrices ==
    FilterFinished =>
        /\ countOf(exclusionReasons, "free_model")
              = Cardinality({k \in DOMAIN allModels :
                               excludedAsFree(allModels[k])})
        /\ \A k \in DOMAIN allModels :
              excludedAsFree(allModels[k]) =>
                 /\ taskSpec.hard_constraints.exclude_free
                 /\ ~Falsy(allModels[k].pricing.prompt)
                 /\ ~Falsy(allModels[k].pricing.completion)
                 /\ parsePrice(allModels[k].pricing.prompt) = 0
                 /\ parsePrice(allModels[k].pricing.completion) = 0

\* With known prices the clause does as claimed: a model is excluded as
\* free exactly when exclude_free is set, no earlier clause excluded it and
\* both prices are 0.
FreeAgreesOnKnownPrices ==
    FilterFinished =>
        \A k \in DOMAIN allModels :
            (/\ ~Falsy(allModels[k].pricing.prompt)
             /\ ~Falsy(allModels[k].pricing.completion)
             /\ excludedAsFree(allModels[k])) =>
                /\ taskSpec.hard_constraints.exclude_free
                /\ parsePrice(allModels[k].pricing.prompt) = 0
                /\ parsePrice(allModels[k].pricing.completion) = 0

\* ------------------------------------------------------------------------
\* Properties of the catalog cache and of the freshness gate (Spec)

\* now < expires_at, the entry being there
Fresh(entry, t) == entry.present /\ t < getTime(entry.expires_at)

\* C4: isCacheValid(snapshot) is true if and only if there is a snapshot
\* and the current time is strictly before its expires_at: for the snapshot
\* in memory at every moment, for no snapshot, and in the gate of every tool
\* call without force, which goes to the provider exactly when the snapshot
\* it saw was missing or had expires_at at or before the time of the call.
C4_ValidIffStrictlyBeforeExpiry ==
    /\ isCacheValid(modelsCache, now) = Fresh(modelsCache, now)
    /\ ~isCacheValid(NoEntry, now)
    /\ \A r \in InFlight :
          ~req[r].force =>
             ((req[r].fetches = 0) = Fresh(req[r].seen, req[r].startedAt))
    /\ (completed.present /\ ~completed.force) =>
          ((completed.fetches = 0) = Fresh(completed.seen, completed.startedAt))

\* A call without force that found a snapshot expiring at the very
\* millisecond of the call, and went to the provider.
C4_Witness ==
    /\ completed.present
    /\ ~completed.force
    /\ completed.seen.present
    /\ getTime(completed.seen.expires_at) = completed.startedAt
    /\ completed.fetches = 1

\* C6: the snapshot setModelsCache installs has fetched_at equal to the time
\* of the call and expires_at equal to fetched_at plus the configured TTL,
\* its data are the models it was given, and getModelsCache returns exactly
\* the snapshot of the most recent call.
C6_LatestSnapshotWhole ==
    lastSet.present =>
       modelsCache = [present |-> TRUE, data |-> lastSet.models,
                      fetched_at |-> toISOString(lastSet.at),
                      expires_at |-> toISOString(lastSet.at + CacheTTL)]

\* setModelsCache has replaced a snapshot that an earlier call used.
C6_Witness ==
    /\ lastSet.present
    /\ previous.present
    /\ previous # modelsCache

\* The durable copy as loadFromDisk reads it, when both files parse.
durableCopy ==
    [present |-> TRUE, data |-> disk.models.content,
     fetched_at |-> disk.meta.content.fetched_at,
     expires_at |-> disk.meta.content.expires_at]

durableCopyReadable == disk.models.state = "ok" /\ disk.meta.state = "ok"

\* C7: at process start initializeCache installs the durable catalog copy
\* as the snapshot in memory only if the copy is not yet expired; with an
\* expired, missing or unreadable copy the snapshot stays empty; no error is
\* raised either way.
C7_HydrateOnlyIfNotExpired ==
    [][ (~booted /\ booted') =>
          /\ modelsCache' =
                IF durableCopyReadable /\ Fresh(durableCopy, now)
                THEN durableCopy ELSE NoEntry
          /\ unhandled' = unhandled ]_vars

\* The server has started on a durable copy that both files give and that
\* had expired: nothing is in memory.
C7_Witness ==
    /\ booted
    /\ durableCopyReadable
    /\ ~modelsCache.present
    /\ ~lastSet.present
    /\ pendingWrites = {}

\* C8: setModelsCache and addEmbeddings return with the cache in memory
\* updated while their durable writes are still pending, and a durable write
\* that settles, whether it succeeds or fails, changes neither the caches in
\* memory nor any tool call in flight or returned, and raises nothing.
C8_WritesNeverReachMemory ==
    [][ /\ (lastSet' # lastSet) =>
              /\ modelsCache'.data = lastSet'.models
              /\ saveToDisk(modelsCache') \subseteq pendingWrites'
        /\ (booted /\ embeddingsCache'.present
                   /\ embeddingsCache' # embeddingsCache) =>
              [live |-> TRUE, cache |-> embeddingsCache'] \in pendingEmbWrites'
        /\ (disk' # disk \/ (pendingWrites' \subseteq pendingWrites
                             /\ pendingWrites' # pendingWrites)
                         \/ (Cardinality(pendingEmbWrites')
                                < Cardinality(pendingEmbWrites))) =>
              UNCHANGED <<modelsCache, embeddingsCache, req, completed,
                          unhandled>> ]_vars

\* A task2model call has refreshed the catalog, added embeddings and
\* returned its result while the writes of both are still pending.
C8_Witness ==
    /\ completed.present
    /\ completed.result.ok
    /\ completed.fetches = 1
    /\ saveToDisk(completed.used) \subseteq pendingWrites
    /\ embeddingsCache.present
    /\ [live |-> TRUE, cache |-> embeddingsCache] \in pendingEmbWrites

\* C10: a task2model call whose catalog fetch fails has made exactly one
\* fetch attempt, returns the client's error unchanged, and leaves the
\* snapshot in memory as it was: the step that returns changes nothing of
\* it, and for a call that ran alone it is what the call saw when it
\* started.
C10_FailedFetchOnceUnchanged ==
    /\ [](\A r \in Requests : req[r].fetches <= 1)
    /\ []((completed.present /\ completed.kind = "task2model"
                             /\ completed.getModelsError # NoError) =>
             /\ completed.fetches = 1
             /\ ~completed.result.ok
             /\ completed.result.error = completed.getModelsError
             /\ completed.solo => completed.cacheAtEnd = completed.seen)
    /\ [][ (~completed.present /\ completed'.present
              /\ completed'.getModelsError # NoError) =>
                 modelsCache' = modelsCache ]_vars

\* A forced refresh over a snapshot in memory has failed.
C10_Witness ==
    /\ completed.present
    /\ completed.kind = "task2model"
    /\ completed.getModelsError # NoError
    /\ completed.force
    /\ completed.seen.present
    /\ modelsCache = completed.seen

\* C5: of two consecutive calls, the second starting before the snapshot of
\* the first expires: without force the second reports source "cache" and
\* the fetched_at of the first and fetches nothing; with force, when it
\* succeeds, it reports source "live" and a fetched_at not before its start.
C5_SecondCallWithinTTL ==
    (completed.present /\ completed.after.present
        /\ completed.startedAt < getTime(completed.after.expires_at)) =>
       IF ~completed.force
       THEN /\ completed.fetches = 0
            /\ completed.result.ok
            /\ completed.result.catalog.present
            /\ completed.result.catalog.source = "cache"
            /\ completed.result.catalog.fetched_at = completed.after.fetched_at
       ELSE completed.result.ok =>
               /\ completed.result.catalog.present
               /\ completed.result.catalog.source = "live"
               /\ getTime(completed.result.catalog.fetched_at)
                     >= completed.startedAt


\* ------------------------------------------------------------------------
\* Properties of the endpoint checks (EndpointsSpec)

\* A task2model call that checked the endpoints of its shortlist has
\* returned.
endpointsChecked ==
    /\ completed.present
    /\ completed.kind = "task2model"
    /\ completed.call.checks # <<>>

\* The entries of the shortlist whose getEndpoints failed.
failedChecks ==
    {k \in DOMAIN completed.call.checks :
        ~completed.call.checks[k].result.ok}

\* C11 as stated: a failure of a per-model endpoint fetch during task2model
\* (include_endpoints set, standard detail) is what the call returns: the
\* result is that error and not a successful shortlist.
C11_EndpointFailurePropagates ==
    endpointsChecked =>
        \A k \in failedChecks :
            /\ ~completed.result.ok
            /\ completed.result.error = completed.call.checks[k].result.error

\* C11 amended: a failure of a per-model endpoint fetch during task2model
\* (include_endpoints set, standard detail) does not propagate: the call
\* returns a successful shortlist with an entry for that model, and the
\* entry has no endpoints summary.
C11_EndpointFailureAbsorbed ==
    endpointsChecked =>
        \A k \in failedChecks :
            /\ completed.result.ok
            /\ completed.result.error = NoError
            /\ Len(completed.result.shortlist) = Len(completed.call.checks)
            /\ completed.result.shortlist[k].model_id =
                  completed.call.shortlisted[k].model.id
            /\ ~completed.result.shortlist[k].endpoints_summary.present

\* A call has returned after one endpoint fetch failed and another
\* succeeded.
C11_Witness ==
    /\ endpointsChecked
    /\ failedChecks # {}
    /\ \E k \in DOMAIN completed.call.checks :
          /\ completed.call.checks[k].result.ok
          /\ completed.result.shortlist[k].endpoints_summary.present


\* ------------------------------------------------------------------------
\* Properties of the embedding calls (EmbeddingsSpec)

\* A task2model call that had a catalog snapshot after its freshness gate
\* has returned.
recommended ==
    /\ completed.present
    /\ completed.kind = "task2model"
    /\ completed.getModelsError = NoError

\* The fixed semantic score of a survivor scored without both vectors.
neutralScore == IF variant = "description" THEN FixedScale \div 2 ELSE 0

\* The survivors of the returned call that were scored without the task
\* vector or without their own vector.
unembedded ==
    {k \in DOMAIN completed.call.shortlisted :
        \/ completed.call.taskEmbedding = <<>>
        \/ getModelEmbedding(completed.call.scoredWith,
                             completed.call.shortlisted[k].model.id) = <<>>}

C13_EarlierBatchesKept ==
    (recommended /\ completed.call.fetchError # "") =>
        \A id \in DOMAIN completed.call.newEmbeddings :
            getModelEmbedding(completed.call.scoredWith, id) =
                completed.call.newEmbeddings[id]


\* C14: between embedding-TTL expiries the in-memory embedding cache only
\* grows: an identifier that had a cached vector when a task2model call
\* started still has that vector in the cache the call leaves behind.
C14_EmbeddingCacheOnlyGrows ==
    (/\ recommended
     /\ completed.call.embeddingsSeen.present
     /\ completed.finishedAt
            - getTime(completed.call.embeddingsSeen.fetched_at)
          <= EMBEDDINGS_TTL_MS) =>
        \A id \in DOMAIN completed.call.embeddingsSeen.embeddings :
            getModelEmbedding(completed.call.scoredWith, id) =
                completed.call.embeddingsSeen.embeddings[id]

\* The survivors of the returned call that were scored with a vector of the
\* embedding cache.
embedded == DOMAIN completed.call.shortlisted \ unembedded

\* C15: a vector of the embedding cache is used for scoring only while the
\* age of the cache, measured from its fetched_at, is within the embedding
\* TTL.
C15_CachedVectorUsedWithinTTL ==
    (recommended /\ embedded # {}) =>
        completed.finishedAt - getTime(completed.call.scoredWith.fetched_at)
            <= EMBEDDINGS_TTL_MS


\* ------------------------------------------------------------------------
\* Properties of get_model_profile and of the client without a credential
\* (ProfileSpec)

\* A get_model_profile call has returned.
profiled ==
    /\ completed.present
    /\ completed.kind = "get_model_profile"

\* The model_id of the returned call is the id of no model of the snapshot
\* the call had after its freshness gate.
unknownModel ==
    /\ completed.getModelsError = NoError
    /\ \A k \in DOMAIN completed.call.cache.data :
          completed.call.cache.data[k].id # completed.call.args.model_id

\* C16: get_model_profile with a model_id that is the id of no model of
\* the current catalog snapshot returns an INVALID_INPUT error whose
\* details carry that model_id, and issues no endpoint and no parameter
\* request.
C16_UnknownModelIsInvalidInput ==
    (profiled /\ unknownModel) =>
        /\ ~completed.result.ok
        /\ completed.result.error.code = "INVALID_INPUT"
        /\ completed.result.details.present
        /\ completed.result.details.model_id = completed.call.args.model_id
        /\ completed.call.endpointRequests = 0
        /\ completed.call.parameterRequests = 0
        /\ completed.call.checks = <<>>

\* A call that asked for endpoints and parameters of an unknown model has
\* returned, its snapshot fetched by the call itself.
C16_Witness ==
    /\ profiled
    /\ unknownModel
    /\ completed.fetches = 1
    /\ completed.call.cache.present
    /\ Len(completed.call.cache.data) > 0
    /\ completed.call.args.include_endpoints
    /\ completed.call.args.include_parameters
    /\ completed.result.error.code = "INVALID_INPUT"

\* The responses of the provider to a request of the client.
ProviderResponses(data) == {Response(200, data)} \cup FailedResponses

\* Without a usable credential listModels succeeds when the provider
\* answers with the catalog.
ListModelsNeedsNoKey ==
    \A raw \in ProfileKeys, c \in ProviderCatalogs :
        ~hasApiKey(raw) => getModels(raw, Response(200, c)) = Ok(c)

\* Without a usable credential embed returns AUTH_REQUIRED whatever the
\* provider would answer.
EmbedNeedsKey ==
    \A raw \in ProfileKeys :
        ~hasApiKey(raw) =>
            \A response \in ProviderResponses(<<embeddingOf("code")>>) :
                LET result == getEmbeddings(raw, <<"code">>, response)
                IN  ~result.ok /\ result.error.code = "AUTH_REQUIRED"

\* C17: with no usable credential (unset, placeholder, shorter than 10
\* characters) listModels succeeds when the provider answers, and
\* listEndpoints, listParameters and embed return AUTH_REQUIRED, never a
\* success value: here, each getEndpoints and getParameters call of a
\* returned get_model_profile.
C17_KeylessCallsAreAuthRequired ==
    /\ ListModelsNeedsNoKey
    /\ EmbedNeedsKey
    /\ (profiled /\ ~hasApiKey(apiKey)) =>
          \A k \in DOMAIN completed.call.checks :
              /\ ~completed.call.checks[k].result.ok
              /\ completed.call.checks[k].result.error.code = "AUTH_REQUIRED"


\* ------------------------------------------------------------------------
\* Properties of the response and of interleaved calls (Spec)

\* A task2model call has returned a successful response.
answered ==
    /\ completed.present
    /\ completed.kind = "task2model"
    /\ completed.result.ok

\* The response carries the freshness report and the exclusion summary.
reportsFreshness ==
    /\ completed.result.catalog.present
    /\ completed.result.catalog.source \in {"cache", "live"}
    /\ completed.result.catalog.auth_used = hasApiKey(apiKey)
    /\ completed.result.excluded_summary.present
    /\ completed.result.excluded_summary.total_models
          = Len(completed.call.cache.data)
    /\ completed.result.excluded_summary.after_hard_filter
          = Len(completed.call.filtered)

\* Above the detail level names_only every successful response carries
\* both.
FreshnessReportedAboveNamesOnly ==
    (answered /\ completed.detail # "names_only") => reportsFreshness

\* C22: every successful task2model response, at every detail level,
\* includes the catalog freshness report (fetched_at, cache_age_ms, source,
\* auth_used) and the exclusion summary of the hard filter.
C22_FreshnessAtEveryDetailLevel ==
    answered => reportsFreshness

\* A task2model call has returned.
returned == completed.present /\ completed.kind = "task2model"

\* C25: every successful task2model response is computed from a snapshot
\* that was valid (now < expires_at) at the freshness check of the call or
\* that the call fetched itself; an expired snapshot is never used, so a
\* call that finds the snapshot expired and whose fetch fails returns the
\* failure though the stale data are in memory; and the branch that
\* answers 'no cache available' after the gate is never taken.
C25_NeverAnsweredFromExpired ==
    /\ answered =>
          /\ completed.used.present
          /\ completed.used = completed.call.cache
          /\ \/ /\ completed.fetches = 0
                /\ completed.used = completed.seen
                /\ completed.startedAt < getTime(completed.used.expires_at)
             \/ /\ completed.fetches = 1
                /\ completed.call.source = "live"
                /\ completed.startedAt <= getTime(completed.used.fetched_at)
                /\ getTime(completed.used.fetched_at) <= completed.finishedAt
    /\ (returned /\ ~Fresh(completed.seen, completed.startedAt)
                 /\ completed.getModelsError # NoError) =>
          /\ ~completed.result.ok
          /\ completed.result.error = completed.getModelsError
          /\ completed.result.shortlist = <<>>
    /\ returned =>
          completed.result.error # noCacheAvailable.error

\* A call found an expired snapshot, its fetch failed and it returned the
\* failure while the expired snapshot was still in memory.
C25_Witness ==
    /\ returned
    /\ completed.seen.present
    /\ ~Fresh(completed.seen, completed.startedAt)
    /\ completed.getModelsError # NoError
    /\ ~completed.result.ok
    /\ modelsCache = completed.seen
    /\ modelsCache.data # <<>>

\* ------------------------------------------------------------------------
\* Properties of the order of the endpoint checks (EndpointsSpec)

\* The getEndpoints calls of a request that have settled.
settledChecks(rec) == {k \in DOMAIN rec.checks : rec.checks[k].settled}

\* C24: in standard detail with include_endpoints set the endpoint fetches
\* of the shortlist are issued together, the response is produced only
\* after every one of them has settled, with success or not, and the
\* shortlist entries are in ranking order whatever the order in which the
\* fetches settle.
C24_AllSettledInRankingOrder ==
    /\ \A r \in Requests :
          req[r].pc = "endpoints" =>
             /\ DOMAIN req[r].checks = DOMAIN req[r].shortlisted
             /\ req[r].endpointRequests = Len(req[r].shortlisted)
             /\ settledChecks(req[r]) # DOMAIN req[r].checks
    /\ endpointsChecked =>
          /\ settledChecks(completed.call) = DOMAIN completed.call.shortlisted
          /\ {completed.call.checks[k].at :
                 k \in DOMAIN completed.call.checks}
                = DOMAIN completed.call.shortlisted
          /\ DOMAIN completed.result.shortlist
                = DOMAIN completed.call.shortlisted
          /\ \A k \in DOMAIN completed.result.shortlist :
                /\ completed.result.shortlist[k].model_id
                      = completed.call.shortlisted[k].model.id
                /\ completed.result.shortlist[k].endpoints_summary
                      = checkEndpoints(variant, completed.call.checks[k],
                                       requiredParamsOf(completed.call.spec),
                                       TRUE).summary

\* A call has returned whose second entry had its endpoints before the
\* first, with different outcomes.
C24_Witness ==
    /\ endpointsChecked
    /\ Len(completed.result.shortlist) = 2
    /\ completed.call.checks[2].at = 1
    /\ completed.call.checks[1].at = 2
    /\ completed.result.shortlist[1].endpoints_summary.present
    /\ ~completed.result.shortlist[2].endpoints_summary.present

\* ------------------------------------------------------------------------
\* Properties of two interleaved calls (InterleavedSpec)

\* The returned call found no valid snapshot when it started.
fetchedItsOwn ==
    /\ answered
    /\ ~Fresh(completed.seen, completed.startedAt)

\* The ids of a list of models.
idsOf(models) == {models[k].id : k \in DOMAIN models}

\* C23: when two task2model requests interleave and both find the catalog
\* snapshot expired, each issues its own catalog fetch, the snapshot in
\* memory is the one of the fetch that completed last, and the response of
\* each request (total_models, after_hard_filter, shortlist, fetched_at) is
\* computed from the one snapshot that request installed.
C23_ResponseFromOwnSnapshot ==
    /\ lastSet.present =>
          /\ modelsCache.data = lastSet.models
          /\ modelsCache.fetched_at = toISOString(lastSet.at)
    /\ fetchedItsOwn =>
          \E own \in {completed.call.cache} :
          \E kept \in {hardFilter(variant, own.data,
                                  completed.call.spec.hard_constraints,
                                  getTime(own.fetched_at)).filtered} :
             /\ completed.fetches = 1
             /\ own.present
             /\ completed.call.source = "live"
             /\ completed.startedAt <= getTime(own.fetched_at)
             /\ getTime(own.fetched_at) <= completed.finishedAt
             /\ completed.result.catalog.fetched_at = own.fetched_at
             /\ completed.result.catalog.source = "live"
             /\ completed.result.excluded_summary.total_models
                   = Len(own.data)
             /\ completed.result.excluded_summary.after_hard_filter
                   = Len(kept)
             /\ \A k \in DOMAIN completed.result.shortlist :
                   completed.result.shortlist[k].model_id \in idsOf(kept)

\* Two calls found no snapshot and each fetched the catalog; the one that
\* returns had its snapshot replaced by the fetch of the other, which
\* gave other models at a later time.
C23_Witness ==
    /\ fetchedItsOwn
    /\ ~completed.solo
    /\ completed.result.shortlist # <<>>
    /\ modelsCache.data # completed.call.cache.data
    /\ modelsCache.fetched_at # completed.call.cache.fetched_at
    /\ completed.result.excluded_summary.total_models
          # Len(modelsCache.data)

\* The returned call had every embedding request of its own succeed: each
\* model batch and the task.
embeddingsFetched ==
    /\ recommended
    /\ variant = "description"
    /\ completed.call.embeddingStatus.enabled
    /\ completed.call.embeddingStatus.task_embedded
    /\ completed.call.embeddingStatus.models_failed = 0
    /\ completed.call.fetchError = ""
    /\ completed.call.taskEmbedding # <<>>

\* C27: in the description-similarity variant, when two task2model requests
\* interleave, a request whose model-embedding and task-embedding fetches
\* both succeeded scores every survivor by cosine similarity: no survivor
\* has the neutral score 0.5 because the other request cleared the shared
\* embedding cache between the embedding step and the scoring step of this
\* request.
C27_ScoredByCosineDespiteOtherCall ==
    embeddingsFetched =>
        /\ unembedded = {}
        /\ \A k \in DOMAIN completed.call.shortlisted :
              completed.call.shortlisted[k].score.semantic =
                 semanticScoreOf(variant, completed.call.taskEmbedding,
                     embeddingOf(buildEmbeddingText(
                         completed.call.shortlisted[k].model)))

\* The snapshots that saveToDisk was given in this run or in the run that
\* left the disk.
savedSnapshots == lastSet.installed \cup {PriorEntry}

\* C28: the durable catalog copy is consistent: after any sequence of
\* setModelsCache calls and any order of completion of their disk writes,
\* the model list file and the metadata file (fetched_at, expires_at,
\* model_count) belong to the same snapshot, so that a later hydration
\* never installs the models of one snapshot with the timestamps of
\* another.
C28_DurableCopyOfOneSnapshot ==
    (pendingWrites = {} /\ durableCopyReadable) =>
        \E entry \in savedSnapshots :
            /\ disk.models.content = entry.data
            /\ disk.meta.content = metaOf(entry)
            /\ loadFromDisk(disk, now) \in {entry, NoEntry}

====
